---- MODULE Spec2Model ----
(***************************************************************************)
(* A model of the xltools control-plane library: the xl.cfg configuration  *)
(* model and its text rendering (xlcfg.rs), the wrappers over the xl       *)
(* control tool and the parsers of its tabular output (xen/xl.rs), and     *)
(* check_command (lib.rs).                                                  *)
(*                                                                         *)
(* Text is modelled by TLA+ strings; \o is concatenation.  An Option<T> is *)
(* a sequence of length at most one: <<>> is None, <<x>> is Some(x).       *)
(***************************************************************************)
EXTENDS Integers, Sequences, FiniteSets, TLC

VARIABLES
    diskb,      \* XlDiskCfgBuilder: one Option per field
    diskcfg,    \* Option<XlDiskCfg>: the value returned by build()
    diskout,    \* Option<String>: XlDiskCfg::to_string()
    netb,       \* XlNetCfgBuilder
    netcfg,     \* Option<XlNetCfg>
    netout,     \* Option<String>: XlNetCfg::to_string()
    cfgb,       \* XlCfgBuilder
    cfg,        \* Option<Result<XlCfg, _>>: what XlCfgBuilder::build() returned
    cfgout,     \* Option: what XlCfg::to_string() gave, a String or a panic
    calls,      \* the argument vectors of the child processes spawned so far
    child,      \* Option: what wait_with_output() gave for the last child
    result,     \* Option: what the wrapper called last returned (or its panic)
    log,        \* the lines written with error!()
    row,        \* Option: the text given to the last from_str or new_domnaname
    called,     \* Option: the function of xl.rs called last
    xcfg,       \* Option: an XlCfg value of xenvmm
    xouts,      \* the texts its to_string() has returned so far
    running,    \* the names of the domains Xen runs
    pc,         \* where each caller of windows_dev is
    vmname,     \* Option, per caller: the name new_domnaname returned to it
    created,    \* the xl create calls issued, each with the domains then running
    ipPc,       \* dom_ip: "idle", "capturing" (select_all is awaited) or "done"
    timeoutSecs,\* the timeout given to dom_ip, in seconds
    elapsed,    \* the seconds since dom_ip was called
    domMacs,    \* the HashSet dom_mac returned
    searchMac,  \* Option: the MAC the search tasks were given
    tasks,      \* the devices whose dom_ip_search_mac task is still raced
    streams,    \* per device: the stream items captured and not yet read
    observed,   \* the stream items the tasks have read, with their device
    domIp,      \* Option: what dom_ip returned (or its panic)
    slept,      \* the durations given to tokio::time::sleep so far
    bound,      \* the local ports other processes listen on
    binds,      \* the number of binds and releases by other processes so far
    portCalls,  \* the calls of next_vnc_port so far, with their result
    shown,      \* the values formatted with Display so far, each with its text
    sshPc,      \* position of the call of ssh_domname
    sshTrace,   \* what the call has done so far, in order
    sshResult,  \* what ssh_domname returned
    sshCalls,   \* calls of ssh_domname made
    pendingKeys, \* public keys still to send
    localKeys,  \* the *.pub files of ~/.ssh
    authorized, \* authorized_keys of the guest
    neighOut,   \* what ip neighbor show gave ip_neighbors
    neighbors   \* what ip_neighbors returned

vars ==
    <<diskb, diskcfg, diskout, netb, netcfg, netout, cfgb, cfg, cfgout,
      calls, child, result, log, row, called, xcfg, xouts,
      running, pc, vmname, created,
      ipPc, timeoutSecs, elapsed, domMacs, searchMac, tasks, streams,
      observed, domIp, slept,
      bound, binds, portCalls,
      shown,
      sshPc, sshTrace, sshResult, sshCalls, pendingKeys, localKeys, authorized,
      neighOut, neighbors>>

diskVars == <<diskb, diskcfg, diskout>>
netVars == <<netb, netcfg, netout>>
cfgVars == <<cfgb, cfg, cfgout>>
xlVars == <<calls, child, result, log, row, called>>
xenvmmVars == <<xcfg, xouts>>
devVars == <<running, pc, vmname, created>>
ipVars ==
    <<ipPc, timeoutSecs, elapsed, domMacs, searchMac, tasks, streams,
      observed, domIp, slept>>
portVars == <<bound, binds, portCalls>>
showVars == <<shown>>
sshVars == <<sshPc, sshTrace, sshResult, sshCalls, pendingKeys, localKeys, authorized>>
neighVars == <<neighOut, neighbors>>
notDisk == <<netVars, cfgVars, xlVars, xenvmmVars, devVars, ipVars, portVars, showVars, sshVars, neighVars>>
notNet == <<diskVars, cfgVars, xlVars, xenvmmVars, devVars, ipVars, portVars, showVars, sshVars, neighVars>>
notCfg == <<diskVars, netVars, xlVars, xenvmmVars, devVars, ipVars, portVars, showVars, sshVars, neighVars>>
notXl == <<diskVars, netVars, cfgVars, xenvmmVars, devVars, ipVars, portVars, showVars, sshVars, neighVars>>
notXenvmm == <<diskVars, netVars, cfgVars, xlVars, devVars, ipVars, portVars, showVars, sshVars, neighVars>>

-----------------------------------------------------------------------------
(* Option<T> *)

None == <<>>
Some(x) == <<x>>
IsSome(o) == o # <<>>
Unwrap(o) == o[1]

(* Concatenation of a sequence of strings, left to right. *)
RECURSIVE Concat(_)
Concat(ss) == IF ss = <<>> THEN "" ELSE Head(ss) \o Concat(Tail(ss))

(* [T]::join(sep) *)
RECURSIVE Join(_, _)
Join(ss, sep) ==
    IF ss = <<>> THEN ""
    ELSE IF Len(ss) = 1 THEN ss[1]
    ELSE ss[1] \o sep \o Join(Tail(ss), sep)

-----------------------------------------------------------------------------
(* Strings.  Head, Tail, SubSeq, Len and \o act on a string as on the      *)
(* sequence of its characters; a character is a string of length one.     *)

Char(s, i) == SubSeq(s, i, i)

(* The printable ASCII characters in code-point order: 32..95, 97..126.    *)
AsciiLow ==
    " !\"#$%&'()*+,-./0123456789:;<=>?@ABCDEFGHIJKLMNOPQRSTUVWXYZ[\\]^_"
AsciiHigh == "abcdefghijklmnopqrstuvwxyz{|}~"

AsciiChars ==
    {Char(AsciiLow, i) : i \in 1..Len(AsciiLow)}
        \cup {Char(AsciiHigh, i) : i \in 1..Len(AsciiHigh)}

(* The code point of a character. *)
Ord ==
    [c \in AsciiChars |->
        IF \E i \in 1..Len(AsciiLow) : Char(AsciiLow, i) = c
            THEN 31 + (CHOOSE i \in 1..Len(AsciiLow) : Char(AsciiLow, i) = c)
            ELSE 96 + (CHOOSE i \in 1..Len(AsciiHigh) : Char(AsciiHigh, i) = c)]

(* str::cmp: byte-wise lexicographic order; a proper prefix is smaller. *)
RECURSIVE StrLess(_, _)
StrLess(a, b) ==
    IF b = "" THEN FALSE
    ELSE IF a = "" THEN TRUE
    ELSE IF Head(a) = Head(b) THEN StrLess(Tail(a), Tail(b))
    ELSE Ord[Head(a)] < Ord[Head(b)]

StartsWith(s, p) == Len(p) <= Len(s) /\ SubSeq(s, 1, Len(p)) = p
EndsWith(s, p) == Len(p) <= Len(s) /\ SubSeq(s, Len(s) - Len(p) + 1, Len(s)) = p
Contains(s, p) == \E i \in 1..(Len(s) - Len(p) + 1) : SubSeq(s, i, i + Len(p) - 1) = p

(* The number of places where p occurs in s. *)
Occurrences(s, p) ==
    Cardinality({i \in 1..(Len(s) - Len(p) + 1) : SubSeq(s, i, i + Len(p) - 1) = p})

(* str::split(sep): the pieces between the occurrences of sep, taken from *)
(* the left, empty pieces kept.                                            *)
(* The places where p occurs in s. *)
Find(s, p) == {i \in 1..(Len(s) - Len(p) + 1) : SubSeq(s, i, i + Len(p) - 1) = p}

RECURSIVE Split(_, _)
Split(s, sep) ==
    IF Find(s, sep) = {} THEN <<s>>
    ELSE LET i == CHOOSE j \in Find(s, sep) : \A k \in Find(s, sep) : j <= k
         IN  <<SubSeq(s, 1, i - 1)>> \o Split(SubSeq(s, i + Len(sep), Len(s)), sep)

(* str::split_whitespace: the maximal runs of non-blank characters. *)
RECURSIVE DropEmpty(_)
DropEmpty(ss) ==
    IF ss = <<>> THEN <<>>
    ELSE IF Head(ss) = "" THEN DropEmpty(Tail(ss))
    ELSE <<Head(ss)>> \o DropEmpty(Tail(ss))

split_whitespace(s) == DropEmpty(Split(s, " "))

Digits == "0123456789"
IsDigit(c) == \E i \in 1..10 : Char(Digits, i) = c
DigitValue(c) == (CHOOSE i \in 1..10 : Char(Digits, i) = c) - 1

(* Display for the unsigned and signed integers: decimal, no padding. *)
RECURSIVE NatToStr(_)
NatToStr(n) ==
    IF n < 10 THEN Char(Digits, n + 1)
    ELSE NatToStr(n \div 10) \o Char(Digits, (n % 10) + 1)

IntToStr(n) == IF n < 0 THEN "-" \o NatToStr(0 - n) ELSE NatToStr(n)

(* serde_json::to_string(&str): the text between double quotes, with the   *)
(* double quote and the backslash escaped by a backslash.                  *)
RECURSIVE JsonEscape(_)
JsonEscape(s) ==
    IF s = "" THEN ""
    ELSE (IF Head(s) = "\"" THEN "\\\""
          ELSE IF Head(s) = "\\" THEN "\\\\"
          ELSE Head(s)) \o JsonEscape(Tail(s))

JsonStr(s) == "\"" \o JsonEscape(s) \o "\""

(* serde_json::to_string(&[T]) given the encodings of the elements. *)
JsonArray(elems) == "[" \o Join(elems, ",") \o "]"

(* Result<T, E>, and a panic of the calling thread. *)
Ok(v) == [kind |-> "Ok", val |-> v]
Err(e) == [kind |-> "Err", err |-> e]
Panic(m) == [kind |-> "Panic", msg |-> m]
IsOk(r) == r.kind = "Ok"
IsErr(r) == r.kind = "Err"
IsPanic(r) == r.kind = "Panic"

(* The messages of the panics of Result::unwrap and Option::unwrap. *)
UnwrapErrPanic == "called Result::unwrap() on an Err value"
UnwrapNonePanic == "called Option::unwrap() on a None value"

-----------------------------------------------------------------------------
(* Paths.  A PathBuf is a byte string; utf8 tells whether it is valid      *)
(* UTF-8, lossy is what to_string_lossy() returns for it.                  *)

Path(s) == [utf8 |-> TRUE, lossy |-> s]
NonUtf8Path == [utf8 |-> FALSE, lossy |-> "/boot/vmlinuz-<U+FFFD>"]
PathDefault == Path("")
to_string_lossy(p) == p.lossy

-----------------------------------------------------------------------------
(* Disk sub-grammar *)

XlDiskFormat == {"Raw", "Qcow", "Qcow2", "Vhd", "Qed"}

XlDiskFormatDisplay(f) ==
    CASE f = "Raw" -> "raw"
      [] f = "Qcow" -> "qcow"
      [] f = "Qcow2" -> "qcow2"
      [] f = "Vhd" -> "vhd"
      [] f = "Qed" -> "qed"

VdevIds == {"a", "c"}
XlDiskVdev == [kind : {"Xvd", "Hd", "Sd"}, id : VdevIds]
XlDiskVdevDefault == [kind |-> "Xvd", id |-> "a"]

XlDiskVdevDisplay(v) ==
    CASE v.kind = "Xvd" -> "xvd" \o v.id
      [] v.kind = "Hd" -> "hd" \o v.id
      [] v.kind = "Sd" -> "sd" \o v.id

XlDiskAccess == {"RW", "RO"}

XlDiskAccessDisplayBothRw(a) == "rw"

XlDiskAccessDisplay(a) ==
    CASE a = "RO" -> "ro"
      [] a = "RW" -> "rw"

DiskTargets == {Path("/tmp/disk1.img"), Path("/tmp/disk2.iso")}
DiskScripts == {Path("/etc/xen/scripts/block-iscsi")}

XlDiskCfgDefault ==
    [target |-> PathDefault, format |-> "Raw", vdev |-> XlDiskVdevDefault,
     access |-> "RW", cdrom |-> FALSE, script |-> None]

XlDiskCfgBuilderDefault ==
    [target |-> None, format |-> None, vdev |-> None,
     access |-> None, cdrom |-> None, script |-> None]

DiskFields == DOMAIN XlDiskCfgBuilderDefault

(* The values a setter of the disk builder is called with.  The setters    *)
(* are generated with strip_option: script(v) stores Some(v) in the field. *)
DiskFieldValues(f) ==
    CASE f = "target" -> DiskTargets
      [] f = "format" -> XlDiskFormat
      [] f = "vdev" -> XlDiskVdev
      [] f = "access" -> XlDiskAccess
      [] f = "cdrom" -> BOOLEAN
      [] f = "script" -> {Some(p) : p \in DiskScripts}

(* XlDiskCfgBuilder::build with #[builder(default)] on the struct: a field *)
(* never set takes the field of XlDiskCfg::default().                      *)
XlDiskCfgBuild(b) ==
    [f \in DiskFields |-> IF IsSome(b[f]) THEN Unwrap(b[f]) ELSE XlDiskCfgDefault[f]]

(* XlDiskCfg's Display with the cdrom flag written as a bare `cdrom,`. *)
XlDiskCfgDisplayBareCdrom(d) ==
    "format=" \o XlDiskFormatDisplay(d.format)
    \o ",vdev=" \o XlDiskVdevDisplay(d.vdev)
    \o ",access=" \o XlDiskAccessDisplay(d.access)
    \o ","
    \o (IF d.cdrom THEN "cdrom," ELSE "")
    \o (IF IsSome(d.script)
          THEN "script=" \o to_string_lossy(Unwrap(d.script))
          ELSE "")
    \o ("target=" \o to_string_lossy(d.target))

(* impl Display for XlDiskCfg:                                             *)
(* format!("format={},vdev={},access={},{}{}{}", format, vdev, access,     *)
(*         cdrom, script, target)                                          *)
XlDiskCfgDisplay(d) ==
    "format=" \o XlDiskFormatDisplay(d.format)
    \o ",vdev=" \o XlDiskVdevDisplay(d.vdev)
    \o ",access=" \o XlDiskAccessDisplay(d.access)
    \o ","
    \o (IF d.cdrom THEN "devtype=cdrom," ELSE "")
    \o (IF IsSome(d.script)
          THEN "script=" \o to_string_lossy(Unwrap(d.script))
          ELSE "")
    \o ("target=" \o to_string_lossy(d.target))

-----------------------------------------------------------------------------
(* BTreeMap<&str, String>: the entries <<key, value>> in ascending key     *)
(* order, which is the order iter() visits them in.                        *)

RECURSIVE BTreeInsert(_, _, _)
BTreeInsert(m, k, v) ==
    IF m = <<>> THEN << <<k, v>> >>
    ELSE IF m[1][1] = k THEN << <<k, v>> >> \o Tail(m)
    ELSE IF StrLess(k, m[1][1]) THEN << <<k, v>> >> \o m
    ELSE <<m[1]>> \o BTreeInsert(Tail(m), k, v)

(* The map after the inserts kvs, made one after the other into m. *)
RECURSIVE BTreeInsertAll(_, _)
BTreeInsertAll(m, kvs) ==
    IF kvs = <<>> THEN m
    ELSE BTreeInsertAll(BTreeInsert(m, kvs[1][1], kvs[1][2]), Tail(kvs))

(* <<k, v>> when the condition holds: one conditional options.insert(k, v) *)
InsertIf(cond, k, v) == IF cond THEN << <<k, v>> >> ELSE <<>>

-----------------------------------------------------------------------------
(* NIC sub-grammar *)

HexDigits == "0123456789ABCDEF"
HexByte(b) == Char(HexDigits, (b \div 16) + 1) \o Char(HexDigits, (b % 16) + 1)

(* Display for MacAddr6: six upper-case hex bytes joined by colons. *)
MacAddr6Display(m) == Join([i \in 1..6 |-> HexByte(m[i])], ":")

(* Display for Ipv4Addr: dotted decimal. *)
Ipv4AddrDisplay(ip) == Join([i \in 1..4 |-> NatToStr(ip[i])], ".")

XlVifType == {"Ioemu", "Vif"}

XlVifTypeDisplay(t) ==
    CASE t = "Ioemu" -> "ioemu"
      [] t = "Vif" -> "vif"

XlVifModel ==
    {[kind |-> "Rtl8139"], [kind |-> "E1000"], [kind |-> "Other", other |-> "virtio-net"]}

XlVifModelDisplay(m) ==
    CASE m.kind = "Rtl8139" -> "rtl8139"
      [] m.kind = "E1000" -> "e1000"
      [] m.kind = "Other" -> m.other

XlNetCfgDefault ==
    [mac |-> None, bridge |-> None, gatewaydev |-> None, type_ |-> None,
     model |-> None, vifname |-> None, script |-> None, ip |-> None]

XlNetCfgBuilderDefault == [f \in DOMAIN XlNetCfgDefault |-> None]

NetFields == DOMAIN XlNetCfgDefault

GuestMac == <<0, 22, 62, 10, 11, 206>>
GuestIp == <<10, 0, 0, 2>>

(* The values a setter of the NIC builder is called with (strip_option). *)
NetFieldValues(f) ==
    CASE f = "mac" -> {Some(GuestMac)}
      [] f = "bridge" -> {Some("xenbr0")}
      [] f = "gatewaydev" -> {Some("eth0")}
      [] f = "type_" -> {Some(t) : t \in XlVifType}
      [] f = "model" -> {Some(m) : m \in XlVifModel}
      [] f = "vifname" -> {Some("vif-agent")}
      [] f = "script" -> {Some(Path("/etc/xen/scripts/vif-bridge"))}
      [] f = "ip" -> {Some(GuestIp)}

XlNetCfgBuild(b) ==
    [f \in NetFields |-> IF IsSome(b[f]) THEN Unwrap(b[f]) ELSE XlNetCfgDefault[f]]

(* impl Display for XlNetCfg: the options.insert calls, in program order. *)
XlNetCfgInserts(n) ==
    InsertIf(IsSome(n.mac), "mac", MacAddr6Display(Unwrap(n.mac)))
    \o InsertIf(IsSome(n.bridge), "bridge", Unwrap(n.bridge))
    \o InsertIf(IsSome(n.gatewaydev), "gatewaydev", Unwrap(n.gatewaydev))
    \o InsertIf(IsSome(n.type_), "type", XlVifTypeDisplay(Unwrap(n.type_)))
    \o InsertIf(IsSome(n.model), "model", XlVifModelDisplay(Unwrap(n.model)))
    \o InsertIf(IsSome(n.vifname), "vifname", Unwrap(n.vifname))
    \o InsertIf(IsSome(n.script), "script", to_string_lossy(Unwrap(n.script)))
    \o InsertIf(IsSome(n.ip), "ip", Ipv4AddrDisplay(Unwrap(n.ip)))

(* The options kept in a Vec instead: in the order of the inserts. *)
XlNetCfgOptionsInsertionOrder(n) == XlNetCfgInserts(n)

(* The BTreeMap `options` once every insert is made. *)
XlNetCfgOptions(n) == BTreeInsertAll(<<>>, XlNetCfgInserts(n))

(* options.iter().map(|(k, v)| format!("{}={}", k, v)).collect().join(",") *)
XlNetCfgDisplay(n) ==
    LET m == XlNetCfgOptions(n)
    IN  Join([i \in 1..Len(m) |-> m[i][1] \o "=" \o m[i][2]], ",")

-----------------------------------------------------------------------------
(* Enumerations of the top-level configuration *)

XlGuestType == {"PV", "PVH", "HVM"}

XlGuestTypeDisplay(t) ==
    CASE t = "PV" -> "pv"
      [] t = "PVH" -> "pvh"
      [] t = "HVM" -> "hvm"

EventAction ==
    {"Destroy", "Restart", "RenameRestart", "Preserve",
     "CoredumpDestroy", "CoredumpRestart", "SoftReset"}

EventActionDisplay(a) ==
    CASE a = "Destroy" -> "destroy"
      [] a = "Restart" -> "restart"
      [] a = "RenameRestart" -> "rename-restart"
      [] a = "Preserve" -> "preserve"
      [] a = "CoredumpDestroy" -> "coredump-destroy"
      [] a = "CoredumpRestart" -> "coredump-restart"
      [] a = "SoftReset" -> "soft-reset"

XlVgaDev == {"None", "StdVga", "Cirrus", "Qxl"}

XlVgaDevDisplay(v) ==
    CASE v = "None" -> "none"
      [] v = "StdVga" -> "stdvga"
      [] v = "Cirrus" -> "cirrus"
      [] v = "Qxl" -> "qxl"

(* XlRemoteHost: Hostname(String) or Ip(Ipv4Addr) *)
XlRemoteHostDisplay(h) ==
    CASE h.kind = "Hostname" -> h.hostname
      [] h.kind = "Ip" -> Ipv4AddrDisplay(h.ip)

OnFlag(b, text) == IF b THEN text ELSE ""

XlUdpConnDisplay(c) ==
    "udp:"
    \o (IF IsSome(c.remote_host) THEN XlRemoteHostDisplay(Unwrap(c.remote_host)) ELSE "")
    \o ":" \o NatToStr(c.remote_port)
    \o (IF IsSome(c.src_port)
          THEN IF IsSome(c.src_ip)
                 THEN "@" \o Ipv4AddrDisplay(Unwrap(c.src_ip)) \o ":"
                          \o NatToStr(Unwrap(c.src_port))
                 ELSE "@:" \o NatToStr(Unwrap(c.src_port))
          ELSE "")

XlTcpConnDisplay(c) ==
    "tcp:"
    \o (IF IsSome(c.remote_host) THEN XlRemoteHostDisplay(Unwrap(c.remote_host)) ELSE "")
    \o ":" \o NatToStr(c.remote_port)
    \o OnFlag(c.server, ",server=on")
    \o OnFlag(c.wait, ",wait=on")
    \o OnFlag(c.nodelay, ",nodelay=on")
    \o (IF IsSome(c.reconnect) THEN ",reconnect=" \o NatToStr(Unwrap(c.reconnect)) ELSE "")

XlTelnetConnDisplay(c) ==
    "telnet:" \o XlRemoteHostDisplay(c.remote_host)
    \o ":" \o NatToStr(c.remote_port)
    \o OnFlag(c.server, ",server=on")
    \o OnFlag(c.wait, ",wait=on")
    \o OnFlag(c.nodelay, ",nodelay=on")

XlWebsocketConnDisplay(c) ==
    "websocket:" \o XlRemoteHostDisplay(c.remote_host)
    \o ":" \o NatToStr(c.remote_port)
    \o ",server=on"
    \o OnFlag(c.wait, ",wait=on")
    \o OnFlag(c.nodelay, ",nodelay=on")

XlUnixConnDisplay(c) ==
    "unix:" \o c.path
    \o OnFlag(c.server, ",server=on")
    \o OnFlag(c.wait, ",wait=on")
    \o (IF IsSome(c.reconnect) THEN ",reconnect=" \o NatToStr(Unwrap(c.reconnect)) ELSE "")

(* impl Display for XlSerialDev *)
XlSerialDevDisplay(d) ==
    CASE d.kind = "Vc" ->
            IF IsSome(d.geometry)
                THEN "vc:" \o NatToStr(Unwrap(d.geometry)[1]) \o ":"
                         \o NatToStr(Unwrap(d.geometry)[2])
                ELSE "vc"
      [] d.kind = "Pty" -> "pty"
      [] d.kind = "None" -> "none"
      [] d.kind = "Null" -> "null"
      [] d.kind = "Chardev" -> "chardev:" \o d.name
      [] d.kind = "Dev" -> "dev:" \o d.name
      [] d.kind = "Parport" -> "parport:" \o NatToStr(d.port)
      [] d.kind = "File" -> "file:" \o d.path
      [] d.kind = "Stdio" -> "stdio"
      [] d.kind = "Pipe" -> "pipe:" \o d.path
      [] d.kind = "Com" -> "com:" \o NatToStr(d.port)
      [] d.kind = "Udp" -> "udp:" \o XlUdpConnDisplay(d.conn)
      [] d.kind = "Tcp" -> "tcp:" \o XlTcpConnDisplay(d.conn)
      [] d.kind = "Telnet" -> "telnet:" \o XlTelnetConnDisplay(d.conn)
      [] d.kind = "Websocket" -> "websocket:" \o XlWebsocketConnDisplay(d.conn)
      [] d.kind = "Unix" -> "unix:" \o XlUnixConnDisplay(d.conn)
      [] d.kind = "Mon" -> "mon:" \o d.path
      [] d.kind = "Braille" -> "braille"
      [] d.kind = "MsMouse" -> "msmouse"

-----------------------------------------------------------------------------
(* XlCfg, the top-level configuration *)

XlCfgDefault ==
    [name |-> "", type_ |-> "HVM", pool |-> None, vcpus |-> None,
     maxvcpus |-> None, cpus |-> None, cpus_soft |-> None, cpu_weight |-> None,
     cap |-> None, memory |-> None, maxmem |-> None, vnuma |-> None,
     on_poweroff |-> None, on_reboot |-> None, on_watchdog |-> None,
     on_crash |-> None, on_soft_reset |-> None, kernel |-> None,
     ramdisk |-> None, cmdline |-> None, root |-> None, extra |-> None,
     disk |-> <<>>, vif |-> <<>>, usbdevice |-> <<>>, vga |-> None,
     videoram |-> None, vnc |-> None, vnclisten |-> None, serial |-> None]

CfgFields == DOMAIN XlCfgDefault

XlCfgBuilderDefault == [f \in CfgFields |-> None]

(* XlCfgBuilder::build.  #[builder(default)] stands on the struct, so a    *)
(* field never set takes the field of XlCfg::default() and no field is     *)
(* required: the result is always Ok.                                      *)
XlCfgBuilderBuild(b) ==
    Ok([f \in CfgFields |-> IF IsSome(b[f]) THEN Unwrap(b[f]) ELSE XlCfgDefault[f]])

(* impl Serialize for Path, under serde_json::to_string: a path that is    *)
(* not UTF-8 is an error.                                                  *)
PathSerialize(p) ==
    IF p.utf8 THEN Ok(JsonStr(p.lossy))
    ELSE Err("path contains invalid UTF-8 characters")

JsonStrArray(ss) == JsonArray([i \in 1..Len(ss) |-> JsonStr(ss[i])])

(* to_string(&self.disk): each disk is serialized as the string its        *)
(* Display gives, in the order of the Vec.                                 *)
DiskListSerialize(ds) ==
    JsonArray([i \in 1..Len(ds) |-> JsonStr(XlDiskCfgDisplay(ds[i]))])

VifListSerialize(ns) ==
    JsonArray([i \in 1..Len(ns) |-> JsonStr(XlNetCfgDisplay(ns[i]))])

VnumaSerialize(v) == JsonArray([i \in 1..Len(v) |-> JsonStrArray(v[i])])

(* impl Display for XlCfg: the options.insert calls in program order, each *)
(* with the Result of the to_string(..) whose unwrap() gives the value:    *)
(* the name, the type and the optional scalars ...                         *)
XlCfgScalarInserts(c) ==
    << <<"name", Ok(JsonStr(c.name))>>,
       <<"type", Ok(JsonStr(XlGuestTypeDisplay(c.type_)))>> >>
    \o InsertIf(IsSome(c.pool), "pool", Ok(JsonStr(Unwrap(c.pool))))
    \o InsertIf(IsSome(c.vcpus), "vcpus", Ok(IntToStr(Unwrap(c.vcpus))))
    \o InsertIf(IsSome(c.maxvcpus), "maxvcpus", Ok(IntToStr(Unwrap(c.maxvcpus))))
    \o InsertIf(IsSome(c.cpus), "cpus", Ok(JsonStr(Unwrap(c.cpus))))
    \o InsertIf(IsSome(c.cpus_soft), "cpus_soft", Ok(JsonStr(Unwrap(c.cpus_soft))))
    \o InsertIf(IsSome(c.cpu_weight), "cpu_weight", Ok(IntToStr(Unwrap(c.cpu_weight))))
    \o InsertIf(IsSome(c.cap), "cap", Ok(IntToStr(Unwrap(c.cap))))
    \o InsertIf(IsSome(c.memory), "memory", Ok(IntToStr(Unwrap(c.memory))))
    \o InsertIf(IsSome(c.maxmem), "maxmem", Ok(IntToStr(Unwrap(c.maxmem))))
    \o InsertIf(IsSome(c.vnuma), "vnuma", Ok(VnumaSerialize(Unwrap(c.vnuma))))
    \o InsertIf(IsSome(c.on_poweroff), "on_poweroff",
                Ok(JsonStr(EventActionDisplay(Unwrap(c.on_poweroff)))))
    \o InsertIf(IsSome(c.on_reboot), "on_reboot",
                Ok(JsonStr(EventActionDisplay(Unwrap(c.on_reboot)))))
    \o InsertIf(IsSome(c.on_watchdog), "on_watchdog",
                Ok(JsonStr(EventActionDisplay(Unwrap(c.on_watchdog)))))
    \o InsertIf(IsSome(c.on_crash), "on_crash",
                Ok(JsonStr(EventActionDisplay(Unwrap(c.on_crash)))))
    \o InsertIf(IsSome(c.on_soft_reset), "on_soft_reset",
                Ok(JsonStr(EventActionDisplay(Unwrap(c.on_soft_reset)))))
    \o InsertIf(IsSome(c.kernel), "kernel", PathSerialize(Unwrap(c.kernel)))
    \o InsertIf(IsSome(c.ramdisk), "ramdisk", PathSerialize(Unwrap(c.ramdisk)))
    \o InsertIf(IsSome(c.cmdline), "cmdline", Ok(JsonStr(Unwrap(c.cmdline))))
    \o InsertIf(IsSome(c.root), "root", Ok(JsonStr(Unwrap(c.root))))
    \o InsertIf(IsSome(c.extra), "extra", Ok(JsonStr(Unwrap(c.extra))))

(* The device lists inserted whether or not they are empty. *)
XlCfgListInsertsNoEmptyCheck(c) ==
    << <<"disk", Ok(DiskListSerialize(c.disk))>>,
       <<"vif", Ok(VifListSerialize(c.vif))>>,
       <<"usbdevice", Ok(JsonStrArray(c.usbdevice))>> >>

(* ... the device lists, each inserted only when it is not empty ... *)
XlCfgListInserts(c) ==
    InsertIf(c.disk # <<>>, "disk", Ok(DiskListSerialize(c.disk)))
    \o InsertIf(c.vif # <<>>, "vif", Ok(VifListSerialize(c.vif)))
    \o InsertIf(c.usbdevice # <<>>, "usbdevice", Ok(JsonStrArray(c.usbdevice)))

(* ... and the display and serial options. *)
XlCfgDisplayInserts(c) ==
    InsertIf(IsSome(c.vga), "vga", Ok(JsonStr(XlVgaDevDisplay(Unwrap(c.vga)))))
    \o InsertIf(IsSome(c.videoram), "videoram", Ok(NatToStr(Unwrap(c.videoram))))
    \o InsertIf(IsSome(c.vnc), "vnc", Ok(IF Unwrap(c.vnc) THEN "1" ELSE "0"))
    \o InsertIf(IsSome(c.vnclisten), "vnclisten",
                Ok(JsonStr(Ipv4AddrDisplay(Unwrap(c.vnclisten)[1]) \o ":"
                               \o NatToStr(Unwrap(c.vnclisten)[2]))))
    \o InsertIf(IsSome(c.serial), "serial",
                Ok(JsonStr(XlSerialDevDisplay(Unwrap(c.serial)))))

XlCfgInserts(c) ==
    XlCfgScalarInserts(c) \o XlCfgListInserts(c) \o XlCfgDisplayInserts(c)

(* The BTreeMap `options` once every insert is made (no unwrap failed). *)
XlCfgOptions(c) ==
    LET ins == XlCfgInserts(c)
    IN  BTreeInsertAll(<<>>, [i \in 1..Len(ins) |-> <<ins[i][1], ins[i][2].val>>])

(* XlCfg::to_string(): the entries "k = v" joined by "; ", or the panic of *)
(* the first unwrap() of an Err.                                           *)
XlCfgDisplay(c) ==
    LET ins == XlCfgInserts(c)
    IN  IF \E i \in 1..Len(ins) : IsErr(ins[i][2])
            THEN Panic(UnwrapErrPanic)
            ELSE LET m == XlCfgOptions(c)
                 IN  Ok(Join([i \in 1..Len(m) |-> m[i][1] \o " = " \o m[i][2]], "; "))

-----------------------------------------------------------------------------
(* check_command and the child process *)

(* A line of captured output: BufRead::lines() gives Err for a line that   *)
(* is not UTF-8.                                                           *)
Line(s) == [utf8 |-> TRUE, text |-> s]
BadLine == [utf8 |-> FALSE, text |-> ""]

(* std::process::Output *)
Output(status, out, err) == [status |-> status, stdout |-> out, stderr |-> err]

(* .lines().filter_map(|l| l.ok()) then error!("out: {}", l) for each *)
RECURSIVE OutLines(_)
OutLines(ls) ==
    IF ls = <<>> THEN <<>>
    ELSE (IF Head(ls).utf8 THEN <<"out: " \o Head(ls).text>> ELSE <<>>)
             \o OutLines(Tail(ls))

(* check_command(result): what it returns for the Result of                *)
(* wait_with_output().                                                     *)
check_command(r) ==
    IF IsOk(r)
        THEN IF r.val.status = 0 THEN Ok(r.val) ELSE Err("Error running command")
        ELSE Err(r.err)

(* check_command(result): the lines it logs. *)
check_command_log(r) ==
    IF IsOk(r) /\ r.val.status # 0
        THEN <<"Command failed. Output:">>
                 \o OutLines(r.val.stdout) \o OutLines(r.val.stderr)
        ELSE <<>>

(* What wait_with_output() can give for an xl create. *)
CreateOutputs ==
    {Ok(Output(0, <<>>, <<>>)),
     Ok(Output(1, <<>>, <<Line("xl: unable to parse config")>>)),
     Err("wait failed")}

TmpPath == "/tmp/.tmpXl0001"

-----------------------------------------------------------------------------
(* str::parse for the numeric types, and MacAddr6::from_str *)

AllDigits(s) == s # "" /\ \A i \in 1..Len(s) : IsDigit(Char(s, i))

RECURSIVE StripZeros(_)
StripZeros(s) == IF Len(s) > 1 /\ Head(s) = "0" THEN StripZeros(Tail(s)) ELSE s

(* The number a string of digits denotes. *)
RECURSIVE StrToNat(_)
StrToNat(s) ==
    IF s = "" THEN 0
    ELSE StrToNat(SubSeq(s, 1, Len(s) - 1)) * 10 + DigitValue(Char(s, Len(s)))

(* Whether the digits a denote a number above the one the digits b denote, *)
(* neither with leading zeros.                                             *)
DigitsAbove(a, b) == Len(a) > Len(b) \/ (Len(a) = Len(b) /\ StrLess(b, a))

U32Max == "4294967295"
I32Max == "2147483647"
I32MinDigits == "2147483648"

(* <u32 as FromStr>::from_str: digits after an optional +, no more than    *)
(* u32::MAX.                                                               *)
ParseU32(s) ==
    LET d == IF s # "" /\ Head(s) = "+" THEN Tail(s) ELSE s
    IN  IF s = "" THEN Err("cannot parse integer from empty string")
        ELSE IF ~AllDigits(d) THEN Err("invalid digit found in string")
        ELSE IF DigitsAbove(StripZeros(d), U32Max)
            THEN Err("number too large to fit in target type")
        ELSE Ok(StrToNat(StripZeros(d)))

(* <i32 as FromStr>::from_str: digits after an optional + or -, within     *)
(* i32::MIN..=i32::MAX.                                                    *)
ParseI32(s) ==
    LET neg == s # "" /\ Head(s) = "-"
        d == IF s # "" /\ (Head(s) = "+" \/ Head(s) = "-") THEN Tail(s) ELSE s
    IN  IF s = "" THEN Err("cannot parse integer from empty string")
        ELSE IF ~AllDigits(d) THEN Err("invalid digit found in string")
        ELSE IF ~neg /\ DigitsAbove(StripZeros(d), I32Max)
            THEN Err("number too large to fit in target type")
        ELSE IF neg /\ DigitsAbove(StripZeros(d), I32MinDigits)
            THEN Err("number too small to fit in target type")
        ELSE IF neg /\ StripZeros(d) = I32MinDigits THEN Ok(0 - 2147483647 - 1)
        ELSE Ok(IF neg THEN 0 - StrToNat(StripZeros(d)) ELSE StrToNat(StripZeros(d)))

(* <u32 as FromStr>::from_str with the value kept as its decimal digits,   *)
(* for the values of the whole range of u32.                               *)
ParseU32Digits(s) ==
    LET d == IF s # "" /\ Head(s) = "+" THEN Tail(s) ELSE s
    IN  IF s = "" THEN Err("cannot parse integer from empty string")
        ELSE IF ~AllDigits(d) THEN Err("invalid digit found in string")
        ELSE IF DigitsAbove(StripZeros(d), U32Max)
            THEN Err("number too large to fit in target type")
        ELSE Ok(StripZeros(d))

(* The digits of n + 1 for the digits of n. *)
RECURSIVE DecInc(_)
DecInc(d) ==
    IF d = "" THEN "1"
    ELSE IF Char(d, Len(d)) = "9" THEN DecInc(SubSeq(d, 1, Len(d) - 1)) \o "0"
    ELSE SubSeq(d, 1, Len(d) - 1) \o Char(Digits, DigitValue(Char(d, Len(d))) + 2)

(* Iterator::max over numbers given by their digits, with unwrap_or(&0). *)
RECURSIVE MaxDigitsOr0(_)
MaxDigitsOr0(ds) ==
    IF ds = <<>> THEN "0"
    ELSE LET m == MaxDigitsOr0(Tail(ds))
         IN  IF DigitsAbove(m, Head(ds)) THEN m ELSE Head(ds)

(* str::trim_start_matches(p): s without every repetition of p at its      *)
(* start.                                                                  *)
RECURSIVE TrimStartMatches(_, _)
TrimStartMatches(s, p) ==
    IF p # "" /\ StartsWith(s, p)
        THEN TrimStartMatches(SubSeq(s, Len(p) + 1, Len(s)), p)
        ELSE s

(* new_domnaname(prefix) once xl_list() has returned Ok(doms): the         *)
(* suffixes of the names that start with prefix, their maximum and the     *)
(* name.  max + 1 overflows for u32::MAX: a panic in a build with overflow *)
(* checks, 0 in one without.                                               *)
Suffixes(prefix, doms) ==
    LET names == [i \in 1..Len(doms) |-> doms[i].name]
        numbered(n) ==
            StartsWith(n, prefix) /\ IsOk(ParseU32Digits(TrimStartMatches(n, prefix)))
        kept == SelectSeq(names, numbered)
    IN  [i \in 1..Len(kept) |-> ParseU32Digits(TrimStartMatches(kept[i], prefix)).val]

new_domnaname(prefix, doms) ==
    LET max == MaxDigitsOr0(Suffixes(prefix, doms))
    IN  IF max = U32Max
            THEN {Panic("attempt to add with overflow"), Ok(prefix \o "0")}
            ELSE {Ok(prefix \o DecInc(max))}

(* The fraction digits without their trailing zeros. *)
RECURSIVE StripTrailingZeros(_)
StripTrailingZeros(s) ==
    IF s # "" /\ Char(s, Len(s)) = "0"
        THEN StripTrailingZeros(SubSeq(s, 1, Len(s) - 1))
        ELSE s

(* <f32 as FromStr>::from_str on a decimal without exponent: an optional   *)
(* sign, digits, an optional point and digits, one digit at least.  The    *)
(* value is kept as its sign, integral part and fraction digits.           *)
ParseF32(s) ==
    LET neg == s # "" /\ Head(s) = "-"
        d == IF s # "" /\ (Head(s) = "+" \/ Head(s) = "-") THEN Tail(s) ELSE s
        parts == Split(d, ".")
        int == parts[1]
        frac == IF Len(parts) = 2 THEN parts[2] ELSE ""
        digitsOrEmpty(t) == t = "" \/ AllDigits(t)
    IN  IF s = "" THEN Err("cannot parse float from empty string")
        ELSE IF \/ Len(parts) > 2
                \/ ~digitsOrEmpty(int)
                \/ ~digitsOrEmpty(frac)
                \/ (int = "" /\ frac = "")
            THEN Err("invalid float literal")
        ELSE Ok([neg |-> neg,
                 int |-> IF int = "" THEN 0 ELSE StrToNat(StripZeros(int)),
                 frac |-> StripTrailingZeros(frac)])

HexLower == "0123456789abcdef"

IsHexDigit(c) ==
    \E i \in 1..16 : Char(HexDigits, i) = c \/ Char(HexLower, i) = c

HexValue(c) ==
    (CHOOSE i \in 1..16 : Char(HexDigits, i) = c \/ Char(HexLower, i) = c) - 1

(* MacAddr6::from_str on the colon or hyphen form: six groups of two hex   *)
(* digits.                                                                 *)
ParseMacAddr6(s) ==
    LET groups == IF Contains(s, ":") THEN Split(s, ":") ELSE Split(s, "-")
        okGroup(g) == Len(g) = 2 /\ IsHexDigit(Char(g, 1)) /\ IsHexDigit(Char(g, 2))
    IN  IF Len(groups) = 6 /\ \A i \in 1..6 : okGroup(groups[i])
            THEN Ok([i \in 1..6 |->
                        HexValue(Char(groups[i], 1)) * 16 + HexValue(Char(groups[i], 2))])
            ELSE Err("invalid MAC address")

-----------------------------------------------------------------------------
(* xl list *)

XlDomainState ==
    {"Running", "Blocked", "Paused", "Shutdown", "Crashed", "Dying"}

(* XlDomainState::from_str with the arms of "b" and "p" exchanged. *)
XlDomainStateFromStrSwapped(s) ==
    CASE s = "r" -> Ok("Running")
      [] s = "b" -> Ok("Paused")
      [] s = "p" -> Ok("Blocked")
      [] s = "s" -> Ok("Shutdown")
      [] s = "c" -> Ok("Crashed")
      [] s = "d" -> Ok("Dying")
      [] OTHER -> Err("Unknown domain state")

(* XlDomainState::from_str *)
XlDomainStateFromStr(s) ==
    CASE s = "r" -> Ok("Running")
      [] s = "b" -> Ok("Blocked")
      [] s = "p" -> Ok("Paused")
      [] s = "s" -> Ok("Shutdown")
      [] s = "c" -> Ok("Crashed")
      [] s = "d" -> Ok("Dying")
      [] OTHER -> Err("Unknown domain state")

(* The state field: each character but `-` through from_str(..).unwrap(),  *)
(* collected into a HashSet.                                               *)
StateFlags(t) ==
    LET cs == {Char(t, i) : i \in 1..Len(t)} \ {"-"}
    IN  IF \E c \in cs : IsErr(XlDomainStateFromStr(c))
            THEN Panic(UnwrapErrPanic)
            ELSE Ok({XlDomainStateFromStr(c).val : c \in cs})

(* <XlListInfo as FromStr>::from_str: the fields are taken and parsed one  *)
(* after the other, and the first that fails ends the parse.               *)
XlListInfoFromStr(s) ==
    LET p == split_whitespace(s) IN
    IF Len(p) < 1 THEN Err("Missing name")
    ELSE IF Len(p) < 2 THEN Err("Missing id")
    ELSE IF IsErr(ParseU32(p[2])) THEN ParseU32(p[2])
    ELSE IF Len(p) < 3 THEN Err("Missing mem")
    ELSE IF IsErr(ParseU32(p[3])) THEN ParseU32(p[3])
    ELSE IF Len(p) < 4 THEN Err("Missing vcpus")
    ELSE IF IsErr(ParseU32(p[4])) THEN ParseU32(p[4])
    ELSE IF Len(p) < 5 THEN Err("Missing state")
    ELSE IF IsPanic(StateFlags(p[5])) THEN StateFlags(p[5])
    ELSE IF Len(p) < 6 THEN Err("Missing time")
    ELSE IF IsErr(ParseF32(p[6])) THEN ParseF32(p[6])
    ELSE Ok([name |-> p[1],
             id |-> ParseU32(p[2]).val,
             mem |-> ParseU32(p[3]).val,
             vcpus |-> ParseU32(p[4]).val,
             state |-> StateFlags(p[5]).val,
             time |-> ParseF32(p[6]).val])

(* .skip(1) *)
Skip1(ls) == IF ls = <<>> THEN <<>> ELSE Tail(ls)

(* list(): the filter_map over the lines and the collect() into a          *)
(* Result<Vec<_>>, which stops at the first row whose parse is an Err; a   *)
(* line that is not UTF-8 is logged and left out.                          *)
RECURSIVE ListCollect(_)
ListCollect(ls) ==
    IF ls = <<>> THEN [res |-> Ok(<<>>), log |-> <<>>]
    ELSE IF ~Head(ls).utf8
        THEN LET rest == ListCollect(Tail(ls))
             IN  [res |-> rest.res,
                  log |-> <<"Error parsing xl list output: stream did not contain valid UTF-8">>
                              \o rest.log]
    ELSE LET r == XlListInfoFromStr(Head(ls).text) IN
         IF ~IsOk(r) THEN [res |-> r, log |-> <<>>]
         ELSE LET rest == ListCollect(Tail(ls))
              IN  [res |-> IF IsOk(rest.res) THEN Ok(<<r.val>> \o rest.res.val)
                                             ELSE rest.res,
                   log |-> rest.log]

-----------------------------------------------------------------------------
(* xl network-list *)

(* The seventh token: split("/") and each piece through parse().unwrap(). *)
TxRx(t) ==
    LET ps == Split(t, "/")
    IN  IF \E i \in 1..Len(ps) : IsErr(ParseI32(ps[i]))
            THEN Panic(UnwrapErrPanic)
            ELSE Ok([i \in 1..Len(ps) |-> ParseI32(ps[i]).val])

(* <XlNetworkListEntry as FromStr>::from_str *)
XlNetworkListEntryFromStr(s) ==
    LET p == split_whitespace(s) IN
    IF Len(p) < 1 THEN Panic(UnwrapNonePanic)
    ELSE IF IsErr(ParseI32(p[1])) THEN ParseI32(p[1])
    ELSE IF Len(p) < 2 THEN Panic(UnwrapNonePanic)
    ELSE IF IsErr(ParseI32(p[2])) THEN ParseI32(p[2])
    ELSE IF Len(p) < 3 THEN Panic(UnwrapNonePanic)
    ELSE IF IsErr(ParseMacAddr6(p[3])) THEN ParseMacAddr6(p[3])
    ELSE IF Len(p) < 4 THEN Panic(UnwrapNonePanic)
    ELSE IF IsErr(ParseI32(p[4])) THEN ParseI32(p[4])
    ELSE IF Len(p) < 5 THEN Panic(UnwrapNonePanic)
    ELSE IF IsErr(ParseI32(p[5])) THEN ParseI32(p[5])
    ELSE IF Len(p) < 6 THEN Panic(UnwrapNonePanic)
    ELSE IF IsErr(ParseI32(p[6])) THEN ParseI32(p[6])
    ELSE IF Len(p) < 7 THEN Panic(UnwrapNonePanic)
    ELSE IF IsPanic(TxRx(p[7])) THEN TxRx(p[7])
    ELSE IF Len(TxRx(p[7]).val) < 2 THEN Panic("index out of bounds")
    ELSE IF Len(p) < 8 THEN Panic(UnwrapNonePanic)
    ELSE Ok([idx |-> ParseI32(p[1]).val,
             be |-> ParseI32(p[2]).val,
             mac |-> ParseMacAddr6(p[3]).val,
             handle |-> ParseI32(p[4]).val,
             state |-> ParseI32(p[5]).val,
             evt_ch |-> ParseI32(p[6]).val,
             tx |-> TxRx(p[7]).val[1],
             rx |-> TxRx(p[7]).val[2],
             be_path |-> p[8]])

(* <XlNetworkListEntry as FromStr>::from_str of the module xl: the tokens  *)
(* one after the other, each but the last through parse()?.                *)
LegacyXlNetworkListEntryFromStr(s) ==
    LET p == split_whitespace(s) IN
    IF Len(p) < 1 THEN Panic(UnwrapNonePanic)
    ELSE IF IsErr(ParseI32(p[1])) THEN ParseI32(p[1])
    ELSE IF Len(p) < 2 THEN Panic(UnwrapNonePanic)
    ELSE IF IsErr(ParseI32(p[2])) THEN ParseI32(p[2])
    ELSE IF Len(p) < 3 THEN Panic(UnwrapNonePanic)
    ELSE IF IsErr(ParseMacAddr6(p[3])) THEN ParseMacAddr6(p[3])
    ELSE IF Len(p) < 4 THEN Panic(UnwrapNonePanic)
    ELSE IF IsErr(ParseI32(p[4])) THEN ParseI32(p[4])
    ELSE IF Len(p) < 5 THEN Panic(UnwrapNonePanic)
    ELSE IF IsErr(ParseI32(p[5])) THEN ParseI32(p[5])
    ELSE IF Len(p) < 6 THEN Panic(UnwrapNonePanic)
    ELSE IF IsErr(ParseI32(p[6])) THEN ParseI32(p[6])
    ELSE IF Len(p) < 7 THEN Panic(UnwrapNonePanic)
    ELSE IF IsErr(ParseI32(p[7])) THEN ParseI32(p[7])
    ELSE IF Len(p) < 8 THEN Panic(UnwrapNonePanic)
    ELSE IF IsErr(ParseI32(p[8])) THEN ParseI32(p[8])
    ELSE IF Len(p) < 9 THEN Panic(UnwrapNonePanic)
    ELSE Ok([idx |-> ParseI32(p[1]).val,
             be |-> ParseI32(p[2]).val,
             mac |-> ParseMacAddr6(p[3]).val,
             handle |-> ParseI32(p[4]).val,
             state |-> ParseI32(p[5]).val,
             evt_ch |-> ParseI32(p[6]).val,
             tx |-> ParseI32(p[7]).val,
             rx |-> ParseI32(p[8]).val,
             be_path |-> p[9]])

(* network_list(): the filter_map over the lines, each row through         *)
(* parse().unwrap(), and the collect() into a Vec.                         *)
RECURSIVE NetworkListCollect(_)
NetworkListCollect(ls) ==
    IF ls = <<>> THEN [res |-> Ok(<<>>), log |-> <<>>]
    ELSE IF ~Head(ls).utf8
        THEN LET rest == NetworkListCollect(Tail(ls))
             IN  [res |-> rest.res,
                  log |-> <<"Failed to parse network-list output">> \o rest.log]
    ELSE LET r == XlNetworkListEntryFromStr(Head(ls).text) IN
         IF IsPanic(r) THEN [res |-> r, log |-> <<>>]
         ELSE IF IsErr(r) THEN [res |-> Panic(UnwrapErrPanic), log |-> <<>>]
         ELSE LET rest == NetworkListCollect(Tail(ls))
              IN  [res |-> IF IsOk(rest.res) THEN Ok(<<r.val>> \o rest.res.val)
                                             ELSE rest.res,
                   log |-> rest.log]

-----------------------------------------------------------------------------
(* The values the setters of XlCfgBuilder are called with *)

MaxFieldsSet == 2

ImgDisk == XlDiskCfgBuild([XlDiskCfgBuilderDefault EXCEPT
               !.target = Some(Path("/tmp/disk1.img"))])
CdDisk == XlDiskCfgBuild([XlDiskCfgBuilderDefault EXCEPT
               !.target = Some(Path("/tmp/disk2.iso")), !.cdrom = Some(TRUE),
               !.vdev = Some([kind |-> "Hd", id |-> "c"])])

BridgedNic == XlNetCfgBuild([XlNetCfgBuilderDefault EXCEPT !.bridge = Some(Some("xenbr0"))])
MacNic == XlNetCfgBuild([XlNetCfgBuilderDefault EXCEPT
               !.bridge = Some(Some("xenbr0")), !.mac = Some(Some(GuestMac))])

(* The Vecs given to the disk and vif setters. *)
DiskLists == {<<>>, <<ImgDisk>>, <<CdDisk>>, <<ImgDisk, CdDisk>>, <<CdDisk, ImgDisk>>}
NetLists == {<<>>, <<BridgedNic>>, <<MacNic, BridgedNic>>}

TcpSerial ==
    [kind |-> "Tcp",
     conn |-> [remote_host |-> Some([kind |-> "Hostname", hostname |-> "localhost"]),
               remote_port |-> 4444, server |-> TRUE, wait |-> FALSE,
               nodelay |-> TRUE, reconnect |-> Some(5)]]

CfgFieldValues(f) ==
    CASE f = "name" -> {"agent", ""}
      [] f = "type_" -> XlGuestType
      [] f = "pool" -> {Some("Pool-0")}
      [] f = "vcpus" -> {Some(1)}
      [] f = "maxvcpus" -> {Some(4)}
      [] f = "cpus" -> {Some("0-3")}
      [] f = "cpus_soft" -> {Some("0-1")}
      [] f = "cpu_weight" -> {Some(256)}
      [] f = "cap" -> {Some(50)}
      [] f = "memory" -> {Some(4096)}
      [] f = "maxmem" -> {Some(8192)}
      [] f = "vnuma" -> {Some(<< <<"pnode=0", "size=512">> >>)}
      [] f = "on_poweroff" -> {Some("Destroy"), Some("RenameRestart")}
      [] f = "on_reboot" -> {Some("Restart")}
      [] f = "on_watchdog" -> {Some("Preserve")}
      [] f = "on_crash" -> {Some("CoredumpDestroy")}
      [] f = "on_soft_reset" -> {Some("SoftReset")}
      [] f = "kernel" -> {Some(Path("/boot/vmlinuz")), Some(NonUtf8Path)}
      [] f = "ramdisk" -> {Some(Path("/boot/initrd.img")), Some(NonUtf8Path)}
      [] f = "cmdline" -> {Some("console=hvc0")}
      [] f = "root" -> {Some("/dev/xvda1")}
      [] f = "extra" -> {Some("quiet")}
      [] f = "disk" -> DiskLists
      [] f = "vif" -> NetLists
      [] f = "usbdevice" -> {<<>>, <<"tablet">>}
      [] f = "vga" -> {Some("StdVga"), Some("None")}
      [] f = "videoram" -> {Some(32)}
      [] f = "vnc" -> {Some(TRUE), Some(FALSE)}
      [] f = "vnclisten" -> {Some(<< <<0, 0, 0, 0>>, 3>>)}
      [] f = "serial" -> {Some([kind |-> "Pty"]), Some(TcpSerial)}

NumSet(b) == Cardinality({f \in DOMAIN b : IsSome(b[f])})

-----------------------------------------------------------------------------
(* Actions *)

DiskInit ==
    /\ diskb = XlDiskCfgBuilderDefault
    /\ diskcfg = None
    /\ diskout = None

(* A setter of XlDiskCfgBuilder. *)
DiskSet(f, v) ==
    /\ diskcfg = None
    /\ diskb' = [diskb EXCEPT ![f] = Some(v)]
    /\ UNCHANGED <<diskcfg, diskout, notDisk>>

DiskBuild ==
    /\ diskcfg = None
    /\ diskcfg' = Some(XlDiskCfgBuild(diskb))
    /\ UNCHANGED <<diskb, diskout, notDisk>>

DiskToString ==
    /\ IsSome(diskcfg)
    /\ diskout = None
    /\ diskout' = Some(XlDiskCfgDisplay(Unwrap(diskcfg)))
    /\ UNCHANGED <<diskb, diskcfg, notDisk>>

DiskSetAny == \E f \in DiskFields : \E v \in DiskFieldValues(f) : DiskSet(f, v)

DiskNext ==
    \/ DiskSetAny
    \/ DiskBuild
    \/ DiskToString

NetInit ==
    /\ netb = XlNetCfgBuilderDefault
    /\ netcfg = None
    /\ netout = None

(* A setter of XlNetCfgBuilder. *)
NetSet(f, v) ==
    /\ netcfg = None
    /\ netb' = [netb EXCEPT ![f] = Some(v)]
    /\ UNCHANGED <<netcfg, netout, notNet>>

NetBuild ==
    /\ netcfg = None
    /\ netcfg' = Some(XlNetCfgBuild(netb))
    /\ UNCHANGED <<netb, netout, notNet>>

NetToString ==
    /\ IsSome(netcfg)
    /\ netout = None
    /\ netout' = Some(XlNetCfgDisplay(Unwrap(netcfg)))
    /\ UNCHANGED <<netb, netcfg, notNet>>

NetSetAny == \E f \in NetFields : \E v \in NetFieldValues(f) : NetSet(f, v)

NetNext ==
    \/ NetSetAny
    \/ NetBuild
    \/ NetToString

CfgInit ==
    /\ cfgb = XlCfgBuilderDefault
    /\ cfg = None
    /\ cfgout = None

XlInit ==
    /\ calls = <<>>
    /\ child = None
    /\ result = None
    /\ log = <<>>
    /\ row = None
    /\ called = None

XenvmmInit ==
    /\ xcfg = None
    /\ xouts = <<>>

(* A setter of XlCfgBuilder. *)
CfgSet(f, v) ==
    /\ cfg = None
    /\ IsSome(cfgb[f]) \/ NumSet(cfgb) < MaxFieldsSet
    /\ cfgb' = [cfgb EXCEPT ![f] = Some(v)]
    /\ UNCHANGED <<cfg, cfgout, notCfg>>

CfgSetAny == \E f \in CfgFields : \E v \in CfgFieldValues(f) : CfgSet(f, v)

(* XlCfgBuilder::build() *)
CfgBuild ==
    /\ cfg = None
    /\ cfg' = Some(XlCfgBuilderBuild(cfgb))
    /\ UNCHANGED <<cfgb, cfgout, notCfg>>

(* cfg.to_string() on the value build() returned *)
CfgToString ==
    /\ IsSome(cfg) /\ IsOk(Unwrap(cfg))
    /\ cfgout = None
    /\ result = None
    /\ cfgout' = Some(XlCfgDisplay(Unwrap(cfg).val))
    /\ UNCHANGED <<cfgb, cfg, notCfg>>

(* xl::create(cfg): the temporary file, then xl create <tmp> <text>       *)
(* spawned, run to its end and its Output given to check_command.          *)
Create ==
    /\ IsSome(cfg) /\ IsOk(Unwrap(cfg))
    /\ cfgout = None
    /\ result = None
    /\ \E tmpOk, spawnOk \in BOOLEAN : \E out \in CreateOutputs :
        LET text == XlCfgDisplay(Unwrap(cfg).val)
        IN  IF ~tmpOk
                THEN /\ result' = Some(Err("tempfile"))
                     /\ UNCHANGED <<calls, child, log>>
            ELSE IF IsPanic(text)
                THEN /\ result' = Some(text)
                     /\ UNCHANGED <<calls, child, log>>
            ELSE IF ~spawnOk
                THEN /\ result' = Some(Panic("Failed to spawn xl create"))
                     /\ UNCHANGED <<calls, child, log>>
            ELSE /\ calls' = Append(calls, <<"xl", "create", TmpPath, text.val>>)
                 /\ child' = Some(out)
                 /\ log' = log \o check_command_log(out)
                 /\ result' = Some(IF IsOk(check_command(out))
                                      THEN Ok(<<>>) ELSE check_command(out))
    /\ called' = Some("create")
    /\ UNCHANGED <<row, cfgVars, diskVars, netVars, xenvmmVars, devVars, ipVars, portVars, showVars, sshVars, neighVars>>

CfgNext ==
    \/ CfgSetAny
    \/ CfgBuild
    \/ CfgToString
    \/ Create

-----------------------------------------------------------------------------
(* The wrappers over xl: what the tool prints and how it exits *)

MaxRows == 3

Domids == {0, 3}

ListHeader == Line("Name ID Mem VCPUs State Time(s)")

(* Rows of xl list: three that are well formed, one without its last       *)
(* fields, one whose id is not a number, one whose state holds an unknown  *)
(* character, and a line that is not UTF-8.                                *)
ListRows ==
    {Line("Domain-0 0 4096 4 -b---- 100.0"),
     Line("agent1 3 2048 2 r----- 12.5"),
     Line("agent5 7 1024 1 --p--d 3.0"),
     Line("agent2 4 1024"),
     Line("agent3 x 512 1 -b---- 0.5"),
     Line("agent4 5 512 1 --x--- 0.1"),
     BadLine}

NetworkListHeader ==
    Line("Idx BE Mac Addr. handle state evt-ch tx-/rx-ring-ref BE-path")

NetworkListRows ==
    {Line("0 0 00:16:3e:0a:0b:ce 0 4 -1 768/769 /local/domain/0/backend/vif/3/0"),
     Line("1 0 00:16:3e:0a:0b:cf 1 4 -1 -1/-1 /local/domain/0/backend/vif/3/1"),
     Line("2 0 00:16:3e:0a:0b:d0"),
     Line("3 0 nomac 3 4 -1 770/771 /local/domain/0/backend/vif/3/3"),
     BadLine}

(* The sequences of at most MaxRows rows. *)
RowSeqs(rows) == UNION {[1..n -> rows] : n \in 0..MaxRows}

ErrLines == {<<>>, <<Line("libxl: error: unable to find domain")>>}

(* What wait_with_output() can give for a child that prints a table. *)
TableOutputs(header, rows) ==
    {Ok(Output(0, <<header>> \o rs, <<>>)) : rs \in RowSeqs(rows)}
        \cup {Ok(Output(1, <<>>, e)) : e \in ErrLines}
        \cup {Ok(Output(0, <<>>, <<>>)), Err("wait failed")}

(* What wait_with_output() can give for a child that prints nothing on     *)
(* success.                                                                *)
PlainOutputs ==
    {Ok(Output(0, <<>>, <<>>)), Err("wait failed")}
        \cup {Ok(Output(1, o, e)) : o \in {<<>>, <<Line("Usage: xl [-vfNtT] <subcommand>")>>},
                                    e \in ErrLines}

(* A wrapper that spawns xl with args, waits for it, passes the Output to *)
(* check_command and maps the Ok value to (): destroy, pause, unpause.     *)
Wrapper(sub, args) ==
    /\ result = None
    /\ \E spawnOk \in BOOLEAN : \E out \in PlainOutputs :
        IF ~spawnOk
            THEN /\ result' = Some(Panic("Failed to spawn xl " \o sub))
                 /\ UNCHANGED <<calls, child, log>>
            ELSE /\ calls' = Append(calls, <<"xl", sub>> \o args)
                 /\ child' = Some(out)
                 /\ log' = log \o check_command_log(out)
                 /\ result' = Some(IF IsOk(check_command(out))
                                      THEN Ok(<<>>) ELSE check_command(out))
    /\ called' = Some(sub)
    /\ UNCHANGED <<row, notXl>>

(* xl::destroy(domid) *)
Destroy == \E domid \in Domids : Wrapper("destroy", <<NatToStr(domid)>>)

(* xl::pause(domid) *)
Pause == \E domid \in Domids : Wrapper("pause", <<NatToStr(domid)>>)

(* xl::unpause(domid) *)
Unpause == \E domid \in Domids : Wrapper("unpause", <<NatToStr(domid)>>)

(* The bytes of a captured stream as one String: the lines, each with its  *)
(* line feed; String::from_utf8 fails when a line is not UTF-8.            *)
FromUtf8(ls) ==
    IF \E i \in 1..Len(ls) : ~ls[i].utf8 THEN Err("invalid utf-8 sequence")
    ELSE Ok(Concat([i \in 1..Len(ls) |-> ls[i].text \o "\n"]))

IsWhitespace(c) == c \in {" ", "\n", "\t", "\r"}

(* str::trim: without the white space at both ends. *)
RECURSIVE TrimStart(_)
TrimStart(s) == IF s # "" /\ IsWhitespace(Head(s)) THEN TrimStart(Tail(s)) ELSE s

RECURSIVE TrimEnd(_)
TrimEnd(s) ==
    IF s # "" /\ IsWhitespace(Char(s, Len(s)))
        THEN TrimEnd(SubSeq(s, 1, Len(s) - 1))
        ELSE s

Trim(s) == TrimEnd(TrimStart(s))

Domnames == {"agent1", "nodomain"}

(* What wait_with_output() can give for xl domid. *)
DomidOutputs ==
    {Ok(Output(0, o, <<>>)) :
        o \in {<<Line("3")>>, <<Line("  7 ")>>, <<Line("agent1")>>, <<Line("-1")>>,
               <<>>, <<BadLine>>}}
        \cup {Ok(Output(1, <<>>, <<Line("Can't get domid of domain name")>>)),
              Err("wait failed")}

(* The closure domid maps the Ok value of check_command with:              *)
(* String::from_utf8(o.stdout).unwrap().trim().parse().unwrap()            *)
DomidParse(o) ==
    IF IsErr(FromUtf8(o.stdout)) THEN Panic(UnwrapErrPanic)
    ELSE IF IsErr(ParseU32(Trim(FromUtf8(o.stdout).val))) THEN Panic(UnwrapErrPanic)
    ELSE Ok(ParseU32(Trim(FromUtf8(o.stdout).val)).val)

(* xl::domid(domname) *)
Domid ==
    /\ result = None
    /\ \E domname \in Domnames : \E spawnOk \in BOOLEAN : \E out \in DomidOutputs :
        IF ~spawnOk
            THEN /\ result' = Some(Panic("Failed to spawn xl domid"))
                 /\ UNCHANGED <<calls, child, log>>
            ELSE /\ calls' = Append(calls, <<"xl", "domid", domname>>)
                 /\ child' = Some(out)
                 /\ log' = log \o check_command_log(out)
                 /\ result' = Some(IF IsOk(check_command(out))
                                      THEN DomidParse(out.val)
                                      ELSE check_command(out))
    /\ called' = Some("domid")
    /\ UNCHANGED <<row, notXl>>

(* The rows from_str is called with: those xl network-list prints, and    *)
(* one with the two ring references as tokens of their own.                *)
FromStrRows ==
    {l.text : l \in {r \in NetworkListRows : r.utf8}}
        \cup {"0 0 00:16:3e:0a:0b:ce 0 4 -1 768 769 /local/domain/0/backend/vif/3/0"}

(* row.parse::<XlNetworkListEntry>() with the impl of xen::xl *)
NetworkListEntryFromStr ==
    /\ result = None
    /\ \E t \in FromStrRows :
        /\ row' = Some([module |-> "xen::xl", text |-> t])
        /\ result' = Some(XlNetworkListEntryFromStr(t))
    /\ UNCHANGED <<calls, child, log, called, notXl>>

(* row.parse::<XlNetworkListEntry>() with the impl of xl *)
LegacyNetworkListEntryFromStr ==
    /\ result = None
    /\ \E t \in FromStrRows :
        /\ row' = Some([module |-> "xl", text |-> t])
        /\ result' = Some(LegacyXlNetworkListEntryFromStr(t))
    /\ UNCHANGED <<calls, child, log, called, notXl>>

Prefixes == {"agent", "other", "1"}

(* Rows of xl list for new_domnaname. *)
NameRows ==
    {Line("agent1 1 2048 2 -b---- 12.5"),
     Line("agent3 3 2048 2 -b---- 1.5"),
     Line("other7 4 1024 1 r----- 3.0"),
     Line("agentx 5 1024 1 -b---- 3.0"),
     Line("agentagent5 6 1024 1 -b---- 0.5"),
     Line("agent4294967295 8 512 1 --p--- 0.0"),
     Line("agent0 9 512 1 -b---- 0.0"),
     Line("11 10 512 1 -b---- 0.0")}

(* new_domnaname(prefix): xl_list()? and the name after the suffixes of    *)
(* the domains it lists.                                                   *)
NewDomname ==
    /\ result = None
    /\ \E prefix \in Prefixes : \E spawnOk \in BOOLEAN :
       \E out \in TableOutputs(ListHeader, NameRows) :
        /\ row' = Some([module |-> "new_domnaname", text |-> prefix])
        /\ IF ~spawnOk
            THEN /\ result' = Some(Panic("Failed to spawn xl list"))
                 /\ UNCHANGED <<calls, child, log>>
            ELSE /\ calls' = Append(calls, <<"xl", "list">>)
                 /\ child' = Some(out)
                 /\ IF IsOk(check_command(out))
                        THEN LET c == ListCollect(Skip1(out.val.stdout))
                             IN  /\ log' = log \o c.log
                                 /\ IF IsOk(c.res)
                                        THEN \E r \in new_domnaname(prefix, c.res.val) :
                                                result' = Some(r)
                                        ELSE result' = Some(c.res)
                        ELSE /\ result' = Some(check_command(out))
                             /\ log' = log \o check_command_log(out)
    /\ called' = Some("list")
    /\ UNCHANGED notXl

(* xl::list() *)
List ==
    /\ result = None
    /\ \E spawnOk \in BOOLEAN : \E out \in TableOutputs(ListHeader, ListRows) :
        IF ~spawnOk
            THEN /\ result' = Some(Panic("Failed to spawn xl list"))
                 /\ UNCHANGED <<calls, child, log>>
            ELSE /\ calls' = Append(calls, <<"xl", "list">>)
                 /\ child' = Some(out)
                 /\ IF IsOk(check_command(out))
                        THEN LET c == ListCollect(Skip1(out.val.stdout))
                             IN  /\ result' = Some(c.res)
                                 /\ log' = log \o c.log
                        ELSE /\ result' = Some(check_command(out))
                             /\ log' = log \o check_command_log(out)
    /\ called' = Some("list")
    /\ UNCHANGED <<row, notXl>>

(* xl::network_list(domid) *)
NetworkList ==
    /\ result = None
    /\ \E domid \in Domids : \E spawnOk \in BOOLEAN :
       \E out \in TableOutputs(NetworkListHeader, NetworkListRows) :
        IF ~spawnOk
            THEN /\ result' = Some(Panic("Failed to spawn xl network-list"))
                 /\ UNCHANGED <<calls, child, log>>
            ELSE /\ calls' = Append(calls, <<"xl", "network-list", NatToStr(domid)>>)
                 /\ child' = Some(out)
                 /\ IF IsOk(check_command(out))
                        THEN LET c == NetworkListCollect(Skip1(out.val.stdout))
                             IN  /\ result' = Some(c.res)
                                 /\ log' = log \o c.log
                        ELSE /\ result' = Some(check_command(out))
                             /\ log' = log \o check_command_log(out)
    /\ called' = Some("network_list")
    /\ UNCHANGED <<row, notXl>>

(* A wrapper that returns (): xl spawned with the arguments argv, its     *)
(* Output given to check_command.                                          *)
Invoke(fn, sub, argv) ==
    /\ result = None
    /\ \E spawnOk \in BOOLEAN : \E out \in PlainOutputs :
        IF ~spawnOk
            THEN /\ result' = Some(Panic("Failed to spawn xl " \o sub))
                 /\ UNCHANGED <<calls, child, log>>
            ELSE /\ calls' = Append(calls, <<"xl">> \o argv)
                 /\ child' = Some(out)
                 /\ log' = log \o check_command_log(out)
                 /\ result' = Some(IF IsOk(check_command(out))
                                      THEN Ok(<<>>) ELSE check_command(out))
    /\ called' = Some(fn)
    /\ UNCHANGED <<row, notXl>>

CheckpointFiles == {Path("/var/lib/xen/save/agent1.chk")}

ConfigFiles == {None, Some(Path("/etc/xen/agent1.cfg"))}

(* xl::domname(domid) *)
Domname ==
    /\ result = None
    /\ \E domid \in Domids : \E spawnOk \in BOOLEAN : \E out \in DomidOutputs :
        IF ~spawnOk
            THEN /\ result' = Some(Panic("Failed to spawn xl domname"))
                 /\ UNCHANGED <<calls, child, log>>
            ELSE /\ calls' = Append(calls, <<"xl", "domname", NatToStr(domid)>>)
                 /\ child' = Some(out)
                 /\ log' = log \o check_command_log(out)
                 /\ result' = Some(IF IsErr(check_command(out)) THEN check_command(out)
                                   ELSE IF IsErr(FromUtf8(out.val.stdout))
                                       THEN Panic(UnwrapErrPanic)
                                   ELSE Ok(Trim(FromUtf8(out.val.stdout).val)))
    /\ called' = Some("domname")
    /\ UNCHANGED <<row, notXl>>

(* xl::rename(domid, name) *)
Rename ==
    \E domid \in Domids : \E n \in Domnames :
        Invoke("rename", "rename", <<"rename", NatToStr(domid), n>>)

(* xl::dump_core(domid, filename) *)
DumpCore ==
    \E domid \in Domids :
        Invoke("dump_core", "dump-core", <<"dump-core", NatToStr(domid), "/tmp/core">>)

(* xl::reboot(domid, force) *)
RebootArgs(domid, force) ==
    <<"reboot", IF force THEN "-F" ELSE "", NatToStr(domid)>>

Reboot ==
    \E domid \in Domids : \E force \in BOOLEAN :
        Invoke("reboot", "reboot", RebootArgs(domid, force))

(* xl::save(domid, stay_running, pause, checkpoint_file, config_file) *)
SaveArgs(domid, stay_running, pause, checkpoint_file, config_file) ==
    <<"save">>
    \o (IF stay_running THEN <<"-c">> ELSE <<>>)
    \o (IF pause THEN <<"-p">> ELSE <<>>)
    \o <<NatToStr(domid), to_string_lossy(checkpoint_file)>>
    \o (IF IsSome(config_file) THEN <<to_string_lossy(Unwrap(config_file))>> ELSE <<>>)

Save ==
    \E domid \in Domids : \E stay_running, pause \in BOOLEAN :
    \E checkpoint_file \in CheckpointFiles : \E config_file \in ConfigFiles :
        Invoke("save", "save",
               SaveArgs(domid, stay_running, pause, checkpoint_file, config_file))

(* xl::restore(pause, checkpoint_file, config_file) *)
RestoreArgs(pause, checkpoint_file, config_file) ==
    <<"restore">>
    \o (IF pause THEN <<"-p">> ELSE <<>>)
    \o (IF IsSome(config_file) THEN <<to_string_lossy(Unwrap(config_file))>> ELSE <<>>)
    \o <<to_string_lossy(checkpoint_file)>>

Restore ==
    \E pause \in BOOLEAN :
    \E checkpoint_file \in CheckpointFiles : \E config_file \in ConfigFiles :
        Invoke("restore", "restore", RestoreArgs(pause, checkpoint_file, config_file))

(* XlShutdownTarget *)
XlShutdownTarget == {[kind |-> "All"]} \cup {[kind |-> "DomId", domid |-> d] : d \in Domids}

(* xl::shutdown(system, wait, force): the vector starts with the flags. *)
ShutdownArgs(system, wait, force) ==
    (IF wait THEN <<"-w">> ELSE <<>>)
    \o (IF force THEN <<"-F">> ELSE <<>>)
    \o <<IF system.kind = "All" THEN "-a" ELSE NatToStr(system.domid)>>

Shutdown ==
    \E system \in XlShutdownTarget : \E wait, force \in BOOLEAN :
        Invoke("shutdown", "shutdown", ShutdownArgs(system, wait, force))

XlNext ==
    \/ Destroy
    \/ Pause
    \/ Unpause
    \/ List
    \/ NetworkList
    \/ Domid
    \/ NewDomname
    \/ NetworkListEntryFromStr
    \/ LegacyNetworkListEntryFromStr
    \/ Domname
    \/ Rename
    \/ DumpCore
    \/ Reboot
    \/ Save
    \/ Restore
    \/ Shutdown

-----------------------------------------------------------------------------
(* xenvmm's XlCfg *)

(* GuestType's Display in xenvmm *)
GuestTypeDisplay(t) ==
    CASE t = "PV" -> "pv"
      [] t = "PVH" -> "pvh"
      [] t = "HVM" -> "hvm"

(* EventAction's Display in xenvmm *)
XenvmmEventActionDisplay(a) ==
    CASE a = "Destroy" -> "destroy"
      [] a = "Restart" -> "restart"
      [] a = "RenameRestart" -> "rename-restart"
      [] a = "Preserve" -> "preserve"
      [] a = "CoredumpDestroy" -> "coredump-destroy"
      [] a = "CoredumpRestart" -> "coredump-restart"
      [] a = "SoftReset" -> "soft-reset"

(* The fields of xenvmm's XlCfg that its Display reads. *)
XenvmmCfg(name, pool, vcpus, cpus, memory, on_crash) ==
    [name |-> name, type_ |-> "HVM", pool |-> pool, vcpus |-> vcpus,
     maxvcpus |-> None, cpus |-> cpus, cpus_soft |-> None, cpu_weight |-> None,
     cap |-> None, memory |-> memory, maxmem |-> None, vnuma |-> None,
     on_poweroff |-> None, on_reboot |-> None, on_watchdog |-> None,
     on_crash |-> on_crash]

(* impl Display for XlCfg in xenvmm: the inserts into the HashMap          *)
(* `options`, in the order of the code.                                    *)
XenvmmInserts(c) ==
    << <<"name", c.name>>, <<"type", GuestTypeDisplay(c.type_)>> >>
    \o InsertIf(IsSome(c.pool), "pool", Unwrap(c.pool))
    \o InsertIf(IsSome(c.vcpus), "vcpus", IntToStr(Unwrap(c.vcpus)))
    \o InsertIf(IsSome(c.maxvcpus), "maxvcpus", IntToStr(Unwrap(c.maxvcpus)))
    \o InsertIf(IsSome(c.cpus), "cpus", Unwrap(c.cpus))
    \o InsertIf(IsSome(c.cpus), "cpus_soft", Unwrap(c.cpus))
    \o InsertIf(IsSome(c.cpu_weight), "cpu_weight", IntToStr(Unwrap(c.cpu_weight)))
    \o InsertIf(IsSome(c.cap), "cap", IntToStr(Unwrap(c.cap)))
    \o InsertIf(IsSome(c.memory), "memory", IntToStr(Unwrap(c.memory)))
    \o InsertIf(IsSome(c.maxmem), "maxmem", IntToStr(Unwrap(c.maxmem)))
    \o InsertIf(IsSome(c.vnuma), "vnuma", VnumaSerialize(Unwrap(c.vnuma)))
    \o InsertIf(IsSome(c.on_poweroff), "on_poweroff",
                XenvmmEventActionDisplay(Unwrap(c.on_poweroff)))
    \o InsertIf(IsSome(c.on_reboot), "on_reboot",
                XenvmmEventActionDisplay(Unwrap(c.on_reboot)))
    \o InsertIf(IsSome(c.on_watchdog), "on_watchdog",
                XenvmmEventActionDisplay(Unwrap(c.on_watchdog)))
    \o InsertIf(IsSome(c.on_crash), "on_crash",
                XenvmmEventActionDisplay(Unwrap(c.on_crash)))

(* HashMap::iter(): the entries in an order the map does not specify; the  *)
(* hasher of every new map is seeded anew.  Each order is one outcome.     *)
HashMapIterOrders(es) ==
    {[i \in 1..Len(es) |-> es[pi[i]]] : pi \in Permutations(1..Len(es))}

(* The texts to_string() can return for c: the entries of one iteration    *)
(* order, each as `k = v`, joined by `; `.                                 *)
XenvmmDisplays(c) ==
    {Join([i \in 1..Len(o) |-> o[i][1] \o " = " \o o[i][2]], "; ")
        : o \in HashMapIterOrders(XenvmmInserts(c))}

MaxRenders == 2

(* The xenvmm configurations the model renders. *)
XenvmmCfgs ==
    {XenvmmCfg("agent", None, None, None, None, None),
     XenvmmCfg("agent", Some("Pool-0"), None, None, None, None),
     XenvmmCfg("agent", None, Some(1), None, Some(4096), None),
     XenvmmCfg("agent", None, None, Some("0-3"), None, None),
     XenvmmCfg("agent", None, None, None, None, Some("Restart"))}

(* An XlCfg value of xenvmm comes to be. *)
XenvmmConstruct ==
    /\ xcfg = None
    /\ \E c \in XenvmmCfgs : xcfg' = Some(c)
    /\ UNCHANGED <<xouts, notXenvmm>>

(* cfg.to_string() on it *)
XenvmmToString ==
    /\ IsSome(xcfg)
    /\ Len(xouts) < MaxRenders
    /\ \E text \in XenvmmDisplays(Unwrap(xcfg)) : xouts' = Append(xouts, text)
    /\ UNCHANGED <<xcfg, notXenvmm>>

XenvmmNext ==
    \/ XenvmmConstruct
    \/ XenvmmToString

(***************************************************************************)
(* presets::windows_dev, called by several clients while another actor     *)
(* creates and destroys domains.                                           *)
(***************************************************************************)
WINDEV_VMNAME == "windev"

Clients == {"c1", "c2"}

(* The names another actor gives to its domains. *)
OtherNames == {"windev1", "windev2", "web"}

DevInit ==
    /\ running = {}
    /\ pc = [c \in Clients |-> "start"]
    /\ vmname = [c \in Clients |-> None]
    /\ created = <<>>

notDev == <<diskVars, netVars, cfgVars, xlVars, xenvmmVars, ipVars, portVars, showVars, sshVars, neighVars>>

(* The domains of xl list, in some order of the rows. *)
RECURSIVE Doms(_)
Doms(names) ==
    IF names = {} THEN <<>>
    ELSE LET n == CHOOSE x \in names : TRUE
         IN  <<[name |-> n]>> \o Doms(names \ {n})

(* let name = new_domnaname(WINDEV_VMNAME.to_string())?; *)
WindowsDevName(c) ==
    /\ pc[c] = "start"
    /\ \E listOk \in BOOLEAN :
        IF listOk
            THEN \E r \in new_domnaname(WINDEV_VMNAME, Doms(running)) :
                    IF IsOk(r)
                        THEN /\ vmname' = [vmname EXCEPT ![c] = Some(r.val)]
                             /\ pc' = [pc EXCEPT ![c] = "named"]
                        ELSE /\ pc' = [pc EXCEPT ![c] = "panicked"]
                             /\ UNCHANGED vmname
            ELSE /\ pc' = [pc EXCEPT ![c] = "failed"]
                 /\ UNCHANGED vmname
    /\ UNCHANGED <<running, created, notDev>>

(* The rest of windows_dev: the configuration is built (new_img and        *)
(* next_vnc_port may fail) and create(cfg)? is called.  xl create refuses  *)
(* the name of a running domain.                                           *)
WindowsDevCreate(c) ==
    /\ pc[c] = "named"
    /\ \E built \in BOOLEAN :
        IF built
            THEN /\ created' = Append(created,
                        [client |-> c, name |-> Unwrap(vmname[c]), running |-> running])
                 /\ IF Unwrap(vmname[c]) \in running
                        THEN /\ pc' = [pc EXCEPT ![c] = "failed"]
                             /\ UNCHANGED running
                        ELSE /\ pc' = [pc EXCEPT ![c] = "done"]
                             /\ running' = running \cup {Unwrap(vmname[c])}
            ELSE /\ pc' = [pc EXCEPT ![c] = "failed"]
                 /\ UNCHANGED <<running, created>>
    /\ UNCHANGED <<vmname, notDev>>

(* Another actor creates a domain. *)
OtherCreate ==
    /\ \E n \in OtherNames \ running : running' = running \cup {n}
    /\ UNCHANGED <<pc, vmname, created, notDev>>

(* Another actor destroys a domain. *)
OtherDestroy ==
    /\ \E n \in running : running' = running \ {n}
    /\ UNCHANGED <<pc, vmname, created, notDev>>

DevNext ==
    \/ \E c \in Clients : WindowsDevName(c)
    \/ \E c \in Clients : WindowsDevCreate(c)
    \/ OtherCreate
    \/ OtherDestroy

(***************************************************************************)
(* dom_ip: the IPv4 address of a domain, from the frames captured on the   *)
(* devices of the host.                                                    *)
(***************************************************************************)
MaxTimeout == 2

MaxFrames == 2

Timeouts == 0..MaxTimeout

Devices == {"eth0", "vif3.0"}

MacA == "00:16:3e:0a:0b:ce"

MacB == "00:16:3e:0a:0b:cf"

MacX == "52:54:00:12:34:56"

(* What network_list can show for the domain: no NIC, one, two. *)
MacSets == {{}, {MacA}, {MacA, MacB}}

(* Captured packets: IPv4 frames from MacA, to MacB and to MacA, and an    *)
(* Ethernet frame that carries no IPv4 header.                             *)
Packets ==
    {[link |-> "Ethernet2", ip |-> "Ipv4",
      smac |-> MacA, sip |-> <<10, 0, 0, 5>>, dmac |-> MacX, dip |-> <<10, 0, 0, 1>>],
     [link |-> "Ethernet2", ip |-> "Ipv4",
      smac |-> MacX, sip |-> <<10, 0, 0, 1>>, dmac |-> MacB, dip |-> <<10, 0, 0, 3>>],
     [link |-> "Ethernet2", ip |-> "Ipv4",
      smac |-> MacX, sip |-> <<10, 0, 0, 1>>, dmac |-> MacA, dip |-> <<10, 0, 0, 2>>],
     [link |-> "Ethernet2", ip |-> "None",
      smac |-> MacA, sip |-> <<0, 0, 0, 0>>, dmac |-> MacX, dip |-> <<0, 0, 0, 0>>]}

(* IPSearchCodec::decode *)
decode(packet) ==
    IF packet.ip = "Ipv4" /\ packet.link = "Ethernet2"
        THEN Some(<< <<packet.smac, packet.sip>>, <<packet.dmac, packet.dip>> >>)
        ELSE None

(* The items of a PacketStream<Active, IPSearchCodec>. *)
StreamItems == {Ok(decode(p)) : p \in Packets} \cup {Err("capture error")}

Elapsed == Err("deadline has elapsed")

IpInit ==
    /\ ipPc = "idle"
    /\ timeoutSecs = 0
    /\ elapsed = 0
    /\ domMacs = {}
    /\ searchMac = None
    /\ tasks = {}
    /\ streams = [d \in Devices |-> <<>>]
    /\ observed = <<>>
    /\ domIp = None
    /\ slept = <<>>

notIp == <<diskVars, netVars, cfgVars, xlVars, xenvmmVars, devVars, portVars, showVars, sshVars, neighVars>>

(* dom_ip(domname, timeout) up to the first await of select_all:           *)
(* Device::list()?, dom_mac(domname) with its two unwraps, the first MAC   *)
(* of the HashSet in its iteration order, one capture per device (those    *)
(* that fail to open are logged and left out), one task per capture.       *)
DomIp ==
    /\ ipPc = "idle"
    /\ \E t \in Timeouts : \E listOk, domidOk, networkListOk \in BOOLEAN :
       \E devices \in SUBSET Devices : \E ms \in MacSets :
       \E opened \in SUBSET devices :
        /\ timeoutSecs' = t
        /\ IF ~listOk
            THEN /\ domIp' = Some(Err("libpcap error"))
                 /\ ipPc' = "done"
                 /\ UNCHANGED <<domMacs, searchMac, tasks>>
            ELSE IF ~domidOk \/ ~networkListOk
            THEN /\ domIp' = Some(Panic(UnwrapErrPanic))
                 /\ ipPc' = "done"
                 /\ UNCHANGED <<domMacs, searchMac, tasks>>
            ELSE IF ms = {}
            THEN /\ domIp' = Some(Err("Could not find a MAC address for DOM"))
                 /\ ipPc' = "done"
                 /\ domMacs' = ms
                 /\ UNCHANGED <<searchMac, tasks>>
            ELSE \E m \in ms :
                 /\ domMacs' = ms
                 /\ searchMac' = Some(m)
                 /\ tasks' = opened
                 /\ IF opened = {}
                        THEN /\ domIp' = Some(Err("Did not obtain any IP"))
                             /\ ipPc' = "done"
                        ELSE /\ domIp' = None
                             /\ ipPc' = "capturing"
    /\ UNCHANGED <<elapsed, streams, observed, slept, notIp>>

(* A device captures a packet: its stream has one more item. *)
Capture(d) ==
    /\ ipPc = "capturing"
    /\ d \in tasks
    /\ Len(observed) + Len(streams["eth0"]) + Len(streams["vif3.0"]) < MaxFrames
    /\ \E item \in StreamItems : streams' = [streams EXCEPT ![d] = Append(@, item)]
    /\ UNCHANGED <<ipPc, timeoutSecs, elapsed, domMacs, searchMac, tasks,
                   observed, domIp, slept, notIp>>

SearchMacNextAnyFrame(d) ==
    /\ ipPc = "capturing"
    /\ d \in tasks
    /\ streams[d] # <<>>
    /\ LET p == Head(streams[d])
       IN  /\ streams' = [streams EXCEPT ![d] = Tail(@)]
           /\ observed' = Append(observed, [dev |-> d, item |-> p])
           /\ IF IsOk(p) /\ IsSome(p.val)
                THEN /\ domIp' = Some(Ok(Unwrap(p.val)[1][2]))
                     /\ ipPc' = "done"
                ELSE UNCHANGED <<domIp, ipPc>>
    /\ UNCHANGED <<timeoutSecs, elapsed, domMacs, searchMac, tasks, slept, notIp>>

(* dom_ip_search_mac reads the next item of its stream: the source IP when *)
(* the MAC is the source MAC, else the destination IP when it is the       *)
(* destination MAC; select_all then returns it and dom_ip_inner with it.   *)
SearchMacNext(d) ==
    /\ ipPc = "capturing"
    /\ d \in tasks
    /\ streams[d] # <<>>
    /\ LET p == Head(streams[d])
           m == Unwrap(searchMac)
       IN  /\ streams' = [streams EXCEPT ![d] = Tail(@)]
           /\ observed' = Append(observed, [dev |-> d, item |-> p])
           /\ IF IsOk(p) /\ IsSome(p.val) /\ m = Unwrap(p.val)[1][1]
                THEN /\ domIp' = Some(Ok(Unwrap(p.val)[1][2]))
                     /\ ipPc' = "done"
                ELSE IF IsOk(p) /\ IsSome(p.val) /\ m = Unwrap(p.val)[2][1]
                THEN /\ domIp' = Some(Ok(Unwrap(p.val)[2][2]))
                     /\ ipPc' = "done"
                ELSE UNCHANGED <<domIp, ipPc>>
    /\ UNCHANGED <<timeoutSecs, elapsed, domMacs, searchMac, tasks, slept, notIp>>

StreamEndFatal(d) ==
    /\ ipPc = "capturing"
    /\ d \in tasks
    /\ streams[d] = <<>>
    /\ tasks' = tasks \ {d}
    /\ domIp' = Some(Err("Did not obtain any IP"))
    /\ ipPc' = "done"
    /\ UNCHANGED <<timeoutSecs, elapsed, domMacs, searchMac, streams, observed,
                   slept, notIp>>

(* The stream of a device ends: its task bails, select_all returns the     *)
(* error and the loop goes on with the remaining tasks, or leaves with     *)
(* the error of dom_ip_inner when there is none.                           *)
StreamEnd(d) ==
    /\ ipPc = "capturing"
    /\ d \in tasks
    /\ streams[d] = <<>>
    /\ tasks' = tasks \ {d}
    /\ IF tasks' = {}
        THEN /\ domIp' = Some(Err("Did not obtain any IP"))
             /\ ipPc' = "done"
        ELSE UNCHANGED <<domIp, ipPc>>
    /\ UNCHANGED <<timeoutSecs, elapsed, domMacs, searchMac, streams, observed,
                   slept, notIp>>

(* A second passes while select_all is pending. *)
Tick ==
    /\ ipPc = "capturing"
    /\ elapsed < timeoutSecs
    /\ elapsed' = elapsed + 1
    /\ UNCHANGED <<ipPc, timeoutSecs, domMacs, searchMac, tasks, streams,
                   observed, domIp, slept, notIp>>

(* tokio::time::timeout: the deadline passes while dom_ip_inner is         *)
(* pending, the future is dropped and `?` returns the error.               *)
TimeoutElapsed ==
    /\ ipPc = "capturing"
    /\ elapsed >= timeoutSecs
    /\ domIp' = Some(Elapsed)
    /\ ipPc' = "done"
    /\ UNCHANGED <<timeoutSecs, elapsed, domMacs, searchMac, tasks, streams,
                   observed, slept, notIp>>

IpNext ==
    \/ DomIp
    \/ \E d \in Devices : Capture(d)
    \/ \E d \in Devices : SearchMacNext(d)
    \/ \E d \in Devices : StreamEnd(d)
    \/ Tick
    \/ TimeoutElapsed

(***************************************************************************)
(* next_vnc_port, as windows_dev calls it: the first local port from 5900  *)
(* upward on which a listening socket can be bound.                        *)
(***************************************************************************)
VncPortStart == 5900

PortSpaceTop == 65535

MaxPortCalls == 3

MaxBinds == 2

(* The ports other processes may listen on, and the ports to start from. *)
OtherPorts == {5900, 5901, 65534, 65535}

PortStarts == {VncPortStart, 65534, 65535}

PortInit ==
    /\ bound = {}
    /\ binds = 0
    /\ portCalls = <<>>

notPort == <<diskVars, netVars, cfgVars, xlVars, xenvmmVars, devVars, ipVars, showVars, sshVars, neighVars>>

(* The listening sockets after the probe socket on port p was bound: it is *)
(* released at once.                                                       *)
AfterProbeHeld(listening, p) == listening \cup {p}

AfterProbe(listening, p) == listening

(* The probe: the ports are tried one after the other from start, the      *)
(* first that binds is returned, and none up to 65535 is an error.         *)
RECURSIVE ProbeFrom(_, _)
ProbeFrom(p, listening) ==
    IF p > PortSpaceTop THEN Err("no free port")
    ELSE IF p \in listening THEN ProbeFrom(p + 1, listening)
    ELSE Ok(p)

(* next_vnc_port() and the same probe from another start. *)
NextVncPort ==
    /\ Len(portCalls) < MaxPortCalls
    /\ \E start \in PortStarts :
        LET r == ProbeFrom(start, bound)
        IN  /\ portCalls' = Append(portCalls,
                    [start |-> start, res |-> r, binds |-> binds])
            /\ bound' = IF IsOk(r) THEN AfterProbe(bound, r.val) ELSE bound
    /\ UNCHANGED <<binds, notPort>>

(* Another process binds a port. *)
OtherBind ==
    /\ binds < MaxBinds
    /\ \E p \in OtherPorts \ bound : bound' = bound \cup {p}
    /\ binds' = binds + 1
    /\ UNCHANGED <<portCalls, notPort>>

(* Another process closes its socket. *)
OtherClose ==
    /\ binds < MaxBinds
    /\ \E p \in bound : bound' = bound \ {p}
    /\ binds' = binds + 1
    /\ UNCHANGED <<portCalls, notPort>>

PortNext ==
    \/ NextVncPort
    \/ OtherBind
    \/ OtherClose

(***************************************************************************)
(* to_string() on the values of the enums of xlcfg.rs.                     *)
(***************************************************************************)
MaxShown == 2

LocalHost == [kind |-> "Hostname", hostname |-> "localhost"]

HostIp == [kind |-> "Ip", ip |-> <<192, 168, 0, 2>>]

XlUdpConns ==
    {[remote_host |-> Some(LocalHost), remote_port |-> 4444,
      src_ip |-> None, src_port |-> None],
     [remote_host |-> None, remote_port |-> 4444,
      src_ip |-> Some(<<10, 0, 0, 1>>), src_port |-> Some(4445)],
     [remote_host |-> Some(HostIp), remote_port |-> 4444,
      src_ip |-> None, src_port |-> Some(4445)]}

XlTcpConns ==
    {[remote_host |-> h, remote_port |-> 4444, server |-> f[1], wait |-> f[2],
      nodelay |-> f[3], reconnect |-> r] :
        h \in {None, Some(LocalHost)},
        f \in {<<FALSE, FALSE, FALSE>>, <<TRUE, FALSE, TRUE>>, <<TRUE, TRUE, TRUE>>},
        r \in {None, Some(5)}}

XlTelnetConns ==
    {[remote_host |-> LocalHost, remote_port |-> 23, server |-> b, wait |-> b,
      nodelay |-> ~b] : b \in BOOLEAN}

XlWebsocketConns ==
    {[remote_host |-> HostIp, remote_port |-> 8080, wait |-> b, nodelay |-> b] :
        b \in BOOLEAN}

XlUnixConns ==
    {[path |-> "/run/serial.sock", server |-> b, wait |-> ~b, reconnect |-> r] :
        b \in BOOLEAN, r \in {None, Some(5)}}

XlSerialDev ==
    {[kind |-> "Vc", geometry |-> g] : g \in {None, Some(<<80, 25>>)}}
    \cup {[kind |-> k] : k \in {"Pty", "None", "Null", "Stdio", "Braille", "MsMouse"}}
    \cup {[kind |-> k, name |-> "serial0"] : k \in {"Chardev", "Dev"}}
    \cup {[kind |-> k, port |-> 1] : k \in {"Parport", "Com"}}
    \cup {[kind |-> k, path |-> "/tmp/serial"] : k \in {"File", "Pipe", "Mon"}}
    \cup {[kind |-> "Udp", conn |-> c] : c \in XlUdpConns}
    \cup {[kind |-> "Tcp", conn |-> c] : c \in XlTcpConns}
    \cup {[kind |-> "Telnet", conn |-> c] : c \in XlTelnetConns}
    \cup {[kind |-> "Websocket", conn |-> c] : c \in XlWebsocketConns}
    \cup {[kind |-> "Unix", conn |-> c] : c \in XlUnixConns}

(* The enums without data, and their variants. *)
UnitEnums ==
    {"XlGuestType", "EventAction", "XlDiskFormat", "XlDiskAccess", "XlVifType",
     "XlVgaDev"}

Variants(e) ==
    CASE e = "XlGuestType" -> XlGuestType
      [] e = "EventAction" -> EventAction
      [] e = "XlDiskFormat" -> XlDiskFormat
      [] e = "XlDiskAccess" -> XlDiskAccess
      [] e = "XlVifType" -> XlVifType
      [] e = "XlVgaDev" -> XlVgaDev

EnumDisplay(e, v) ==
    CASE e = "XlGuestType" -> XlGuestTypeDisplay(v)
      [] e = "EventAction" -> EventActionDisplay(v)
      [] e = "XlDiskFormat" -> XlDiskFormatDisplay(v)
      [] e = "XlDiskAccess" -> XlDiskAccessDisplay(v)
      [] e = "XlVifType" -> XlVifTypeDisplay(v)
      [] e = "XlVgaDev" -> XlVgaDevDisplay(v)

ShowInit == shown = <<>>

notShow ==
    <<diskVars, netVars, cfgVars, xlVars, xenvmmVars, devVars, ipVars, portVars,
      sshVars, neighVars>>

(* to_string() on a variant of an enum without data. *)
EnumToString ==
    /\ Len(shown) < MaxShown
    /\ \E e \in UnitEnums : \E v \in Variants(e) :
        shown' = Append(shown, [enum |-> e, variant |-> v, value |-> v,
                                text |-> EnumDisplay(e, v)])
    /\ UNCHANGED notShow

(* to_string() on an XlSerialDev. *)
SerialToString ==
    /\ Len(shown) < MaxShown
    /\ \E d \in XlSerialDev :
        shown' = Append(shown, [enum |-> "XlSerialDev", variant |-> d.kind,
                                value |-> d, text |-> XlSerialDevDisplay(d)])
    /\ UNCHANGED notShow

ShowNext ==
    \/ EnumToString
    \/ SerialToString

-----------------------------------------------------------------------------
(* ssh_domname: a key-authenticated session with a domain *)

MaxSshCalls == 2

GuestIp4 == <<10, 0, 0, 5>>

(* What dom_ip gives ssh_domname. *)
DomIpResults ==
    {Ok(GuestIp4), Elapsed, Err("Did not obtain any IP"),
     Panic("called Result::unwrap() on an Err value")}

GeneratedKey == "ssh-rsa xltools"

UserKey == "ssh-ed25519 user"

SshInit ==
    /\ sshPc = "idle"
    /\ sshTrace = <<>>
    /\ sshResult = None
    /\ sshCalls = 0
    /\ pendingKeys = <<>>
    /\ localKeys = <<>>
    /\ authorized = <<>>

notSsh ==
    <<diskVars, netVars, cfgVars, xlVars, xenvmmVars, devVars, ipVars, portVars,
      showVars, neighVars>>

Did(op, res) == [op |-> op, res |-> res]

(* ssh_domname is called: it awaits dom_ip, and its error is returned.    *)
SshDomname ==
    /\ sshPc \in {"idle", "done"}
    /\ sshCalls < MaxSshCalls
    /\ sshCalls' = sshCalls + 1
    /\ \E r \in DomIpResults :
        /\ sshTrace' = <<Did("dom_ip", r)>>
        /\ IF IsOk(r)
             THEN sshPc' = "session1" /\ sshResult' = None
             ELSE sshPc' = "done" /\ sshResult' = Some(r)
    /\ UNCHANGED <<pendingKeys, localKeys, authorized, notSsh>>

(* Where ssh_domname goes once ssh_sendkeys has returned Ok.              *)
AfterSendkeysNoRetry == "done"

AfterSendkeys == "session2"

(* ssh_session: the first attempt falls back to ssh_sendkeys on an error, *)
(* the second returns its error.                                          *)
SshSession ==
    /\ sshPc \in {"session1", "session2"}
    /\ \E r \in {Ok("session"), Err("ssh: connect failed")} :
        /\ sshTrace' = Append(sshTrace, Did("ssh_session", r))
        /\ IF IsOk(r)
             THEN sshPc' = "done" /\ sshResult' = Some(r)
             ELSE IF sshPc = "session1"
                    THEN sshPc' = "connect" /\ sshResult' = None
                    ELSE sshPc' = "done" /\ sshResult' = Some(r)
    /\ UNCHANGED <<sshCalls, pendingKeys, localKeys, authorized, notSsh>>

(* An error inside ssh_sendkeys is the result of ssh_domname.             *)
SendkeysFails(e) ==
    /\ sshTrace' = Append(sshTrace, Did("ssh_sendkeys", e))
    /\ sshPc' = "done"
    /\ sshResult' = Some(e)

(* ssh_sendkeys: the password-authenticated session is opened.            *)
BootstrapConnect ==
    /\ sshPc = "connect"
    /\ \/ /\ sshTrace' = Append(sshTrace, Did("connect", Ok("password session")))
          /\ sshPc' = "mkdir"
          /\ UNCHANGED sshResult
       \/ /\ sshTrace' = Append(Append(sshTrace,
                                       Did("connect", Err("russh: connect failed"))),
                                Did("ssh_sendkeys", Err("russh: connect failed")))
          /\ sshPc' = "done"
          /\ sshResult' = Some(Err("russh: connect failed"))
    /\ UNCHANGED <<sshCalls, pendingKeys, localKeys, authorized, notSsh>>

(* ssh_sendkeys: the .ssh directory of the guest is made, then the local  *)
(* keys are read; with no *.pub file a key pair is generated.             *)
SendkeysPrepare ==
    /\ sshPc = "mkdir"
    /\ \/ /\ SendkeysFails(Err("Remote command failed."))
          /\ UNCHANGED <<pendingKeys, localKeys>>
       \/ /\ SendkeysFails(Err("Refusing to overwrite existing RSA key"))
          /\ localKeys = <<>>
          /\ UNCHANGED <<pendingKeys, localKeys>>
       \/ /\ localKeys' = IF localKeys = <<>> THEN <<GeneratedKey>> ELSE localKeys
          /\ pendingKeys' = localKeys'
          /\ sshPc' = "sending"
          /\ UNCHANGED <<sshTrace, sshResult>>
    /\ UNCHANGED <<sshCalls, authorized, notSsh>>

(* ssh_sendkeys: the next key is appended to authorized_keys; after the  *)
(* last one ssh_sendkeys returns Ok.                                      *)
SendKey ==
    /\ sshPc = "sending"
    /\ pendingKeys # <<>>
    /\ \/ /\ SendkeysFails(Err("Remote command failed."))
          /\ pendingKeys' = <<>>
          /\ UNCHANGED authorized
       \/ /\ authorized' = Append(authorized, Head(pendingKeys))
          /\ pendingKeys' = Tail(pendingKeys)
          /\ IF Tail(pendingKeys) = <<>>
               THEN /\ sshTrace' = Append(sshTrace, Did("ssh_sendkeys", Ok("sent")))
                    /\ sshPc' = AfterSendkeys
               ELSE UNCHANGED <<sshTrace, sshPc>>
          /\ UNCHANGED sshResult
    /\ UNCHANGED <<sshCalls, localKeys, notSsh>>

(* The user of the host puts a public key of their own into ~/.ssh.       *)
UserAddsKey ==
    /\ sshPc \in {"idle", "done"}
    /\ \A i \in 1..Len(localKeys) : localKeys[i] # UserKey
    /\ localKeys' = Append(localKeys, UserKey)
    /\ UNCHANGED <<sshPc, sshTrace, sshResult, sshCalls, pendingKeys, authorized,
                   notSsh>>

SshNext ==
    \/ SshDomname
    \/ SshSession
    \/ BootstrapConnect
    \/ SendkeysPrepare
    \/ SendKey
    \/ UserAddsKey

-----------------------------------------------------------------------------
(* ip_neighbors: the neighbor table of the host *)

(* Ipv4Addr::from_str: four decimal numbers of at most three digits, each *)
(* at most 255 and without a leading zero, joined by dots.                 *)
ParseIpv4Addr(s) ==
    LET ps == Split(s, ".")
        okPart(t) == /\ AllDigits(t)
                     /\ Len(t) <= 3
                     /\ (Len(t) > 1 => Char(t, 1) # "0")
                     /\ StrToNat(t) <= 255
    IN  IF Len(ps) = 4 /\ \A i \in 1..4 : okPart(ps[i])
            THEN Ok([i \in 1..4 |-> StrToNat(ps[i])])
            ELSE Err("invalid IPv4 address syntax")

(* Iterator::rev of the tokens of a line. *)
Rev(ss) == [i \in 1..Len(ss) |-> ss[Len(ss) + 1 - i]]

(* What is left of an iterator after n calls of next(). *)
Skip(ss, n) == SubSeq(ss, n + 1, Len(ss))

Neighbor(ip, dev, lladdr, state) ==
    [ip |-> ip, dev |-> dev, lladdr |-> lladdr, state |-> state]

(* The closure of ip_neighbors on one line: the tokens from the right,    *)
(* the state, then, unless the state is FAILED, the link-layer address    *)
(* and one more token, then the device, one more token, and the address.  *)
NeighborOfLine(l) ==
    LET parts == Rev(split_whitespace(l)) IN
    IF Len(parts) < 1 THEN Panic(UnwrapNonePanic)
    ELSE LET state == parts[1]
             failed == state = "FAILED"
             rest == IF failed THEN Skip(parts, 1) ELSE Skip(parts, 3)
         IN  IF ~failed /\ Len(parts) < 2 THEN Panic(UnwrapNonePanic)
             ELSE IF ~failed /\ IsErr(ParseMacAddr6(parts[2]))
                  THEN Panic(UnwrapErrPanic)
             ELSE IF Len(rest) < 3 THEN Panic(UnwrapNonePanic)
             ELSE IF IsErr(ParseIpv4Addr(rest[3])) THEN Panic(UnwrapErrPanic)
             ELSE Ok(Neighbor(ParseIpv4Addr(rest[3]).val, rest[1],
                              IF failed THEN None
                                        ELSE Some(ParseMacAddr6(parts[2]).val),
                              state))

(* The lines of stdout that are read: valid UTF-8 and not blank. *)
NeighborLines(ls) ==
    SelectSeq(ls, LAMBDA l : l.utf8 /\ Trim(l.text) # "")

(* The map over the lines and the collect(): the first panic of a row     *)
(* aborts, else the rows in the order of the lines.                       *)
NeighborsCollect(ls) ==
    LET rows == [i \in 1..Len(ls) |-> NeighborOfLine(ls[i].text)]
        bad == {i \in 1..Len(ls) : IsPanic(rows[i])}
    IN  IF bad # {}
            THEN rows[CHOOSE i \in bad : \A j \in bad : i <= j]
            ELSE Ok([i \in 1..Len(ls) |-> rows[i].val])

(* ip_neighbors() for the Result of wait_with_output(). *)
ip_neighbors(out) ==
    IF IsErr(check_command(out)) THEN check_command(out)
    ELSE NeighborsCollect(NeighborLines(check_command(out).val.stdout))

(* Rows of ip neighbor show. *)
NeighborRows ==
    {Line("10.0.0.1 dev eth0 lladdr 00:16:3e:0a:0b:ce REACHABLE"),
     Line("10.0.0.5 dev xenbr0 lladdr 00:16:3e:0a:0b:cf STALE"),
     Line("10.0.0.9 dev eth0 lladdr 00:16:3e:0a:0b:ce PERMANENT"),
     Line("10.0.0.2 dev eth0 lladdr 00:16:3e:0a:0b:cd DELAY"),
     Line("10.0.0.7 dev eth0 FAILED"),
     Line("10.0.0.6 dev xenbr0  FAILED"),
     Line("10.0.0.8 dev eth0 INCOMPLETE"),
     Line("fe80::216:3eff:fe0a:bce dev eth0 lladdr 00:16:3e:0a:0b:ce STALE"),
     Line(""),
     Line("  ")}

(* What wait_with_output() can give for ip neighbor show. *)
NeighborOutputs ==
    {Ok(Output(0, ls, <<>>)) : ls \in RowSeqs(NeighborRows)}
        \cup {Ok(Output(1, <<>>, <<Line("Cannot open netlink socket")>>)),
              Err("Resource temporarily unavailable")}

NeighInit ==
    /\ neighOut = None
    /\ neighbors = None

notNeigh ==
    <<diskVars, netVars, cfgVars, xlVars, xenvmmVars, devVars, ipVars, portVars,
      showVars, sshVars>>

(* ip_neighbors() is called. *)
IpNeighbors ==
    /\ neighOut = None
    /\ \E out \in NeighborOutputs :
        /\ neighOut' = Some(out)
        /\ neighbors' = Some(ip_neighbors(out))
    /\ UNCHANGED notNeigh

NeighNext ==
    \/ IpNeighbors

InitDisk == DiskInit /\ NetInit /\ CfgInit /\ XlInit /\ XenvmmInit /\ DevInit /\ IpInit /\ PortInit /\ ShowInit /\ SshInit /\ NeighInit

SpecDisk == InitDisk /\ [][DiskNext]_vars

InitNet == DiskInit /\ NetInit /\ CfgInit /\ XlInit /\ XenvmmInit /\ DevInit /\ IpInit /\ PortInit /\ ShowInit /\ SshInit /\ NeighInit

SpecNet == InitNet /\ [][NetNext]_vars

InitCfg == DiskInit /\ NetInit /\ CfgInit /\ XlInit /\ XenvmmInit /\ DevInit /\ IpInit /\ PortInit /\ ShowInit /\ SshInit /\ NeighInit

SpecCfg == InitCfg /\ [][CfgNext]_vars

InitXl == DiskInit /\ NetInit /\ CfgInit /\ XlInit /\ XenvmmInit /\ DevInit /\ IpInit /\ PortInit /\ ShowInit /\ SshInit /\ NeighInit

SpecXl == InitXl /\ [][XlNext]_vars

InitXenvmm == DiskInit /\ NetInit /\ CfgInit /\ XlInit /\ XenvmmInit /\ DevInit /\ IpInit /\ PortInit /\ ShowInit /\ SshInit /\ NeighInit

SpecXenvmm == InitXenvmm /\ [][XenvmmNext]_vars

InitDev == DiskInit /\ NetInit /\ CfgInit /\ XlInit /\ XenvmmInit /\ DevInit /\ IpInit /\ PortInit /\ ShowInit /\ SshInit /\ NeighInit

SpecDev == InitDev /\ [][DevNext]_vars

InitIp == DiskInit /\ NetInit /\ CfgInit /\ XlInit /\ XenvmmInit /\ DevInit /\ IpInit /\ PortInit /\ ShowInit /\ SshInit /\ NeighInit

SpecIp == InitIp /\ [][IpNext]_vars

InitPort == DiskInit /\ NetInit /\ CfgInit /\ XlInit /\ XenvmmInit /\ DevInit /\ IpInit /\ PortInit /\ ShowInit /\ SshInit /\ NeighInit

SpecPort == InitPort /\ [][PortNext]_vars

InitShow == DiskInit /\ NetInit /\ CfgInit /\ XlInit /\ XenvmmInit /\ DevInit /\ IpInit /\ PortInit /\ ShowInit /\ SshInit /\ NeighInit

SpecShow == InitShow /\ [][ShowNext]_vars

InitSsh == DiskInit /\ NetInit /\ CfgInit /\ XlInit /\ XenvmmInit /\ DevInit /\ IpInit /\ PortInit /\ ShowInit /\ SshInit /\ NeighInit

SpecSsh == InitSsh /\ [][SshNext]_vars

InitNeigh == DiskInit /\ NetInit /\ CfgInit /\ XlInit /\ XenvmmInit /\ DevInit /\ IpInit /\ PortInit /\ ShowInit /\ SshInit /\ NeighInit

SpecNeigh == InitNeigh /\ [][NeighNext]_vars

-----------------------------------------------------------------------------
(* Reading rendered text back *)

(* The "k<eq>v" pieces of a text whose entries are joined by sep. *)
Entries(text, sep) == IF text = "" THEN <<>> ELSE Split(text, sep)

(* The key of an entry "k<eq>v": what stands before the first <eq>. *)
EntryKey(e, eq) == Split(e, eq)[1]

(* The value of an entry "k<eq>v": what stands after the first <eq>. *)
EntryValue(e, eq) == SubSeq(e, Len(EntryKey(e, eq)) + Len(eq) + 1, Len(e))

EntryKeys(text, sep, eq) ==
    LET es == Entries(text, sep) IN [i \in 1..Len(es) |-> EntryKey(es[i], eq)]

(* The value of the entry of key k in a top-level text that has one. *)
TopLevelValue(text, k) ==
    LET es == Entries(text, "; ")
        i == CHOOSE j \in 1..Len(es) : EntryKey(es[j], " = ") = k
    IN  EntryValue(es[i], " = ")

(* The strings of a JSON array of strings that need no escapes. *)
JsonStrArrayParse(v) ==
    IF v = "[]" THEN <<>>
    ELSE Split(SubSeq(v, 3, Len(v) - 2), "\",\"")

Ascending(keys) ==
    \A i, j \in 1..Len(keys) : i < j => StrLess(keys[i], keys[j])

Rendered == IsSome(cfgout) /\ IsOk(Unwrap(cfgout))
RenderedText == Unwrap(cfgout).val
BuiltCfg == Unwrap(cfg).val

-----------------------------------------------------------------------------
(* Claims *)

(* C1: rendering a configuration is deterministic, and the top-level       *)
(* entries of the text stand in ascending alphabetical order of their     *)
(* keys: the texts to_string() returns for one value are all the same     *)
(* text, and the keys of each ascend.                                      *)
C1_DeterministicAlphabetical ==
    /\ \A i, j \in 1..Len(xouts) : xouts[i] = xouts[j]
    /\ \A i \in 1..Len(xouts) : Ascending(EntryKeys(xouts[i], "; ", " = "))
    /\ Rendered => Ascending(EntryKeys(RenderedText, "; ", " = "))

ListFields == {"disk", "vif", "usbdevice"}
OptionalFields == CfgFields \ ({"name", "type_"} \cup ListFields)

(* The keys the claim expects in the text of a configuration. *)
ExpectedKeySet(c) ==
    {"name", "type"}
        \cup {f \in OptionalFields : IsSome(c[f])}
        \cup {f \in ListFields : c[f] # <<>>}

(* C2: the rendered text has an entry for a key exactly when the field was *)
(* set: name and type always, an optional scalar only when present, disk,  *)
(* vif and usbdevice only when not empty, each key once; and the config    *)
(* built with only name "agent" and type HVM renders to exactly            *)
(* name = "agent"; type = "hvm".                                           *)
C2_EmittedIffSet ==
    Rendered =>
        LET keys == EntryKeys(RenderedText, "; ", " = ")
        IN  /\ {keys[i] : i \in 1..Len(keys)} = ExpectedKeySet(BuiltCfg)
            /\ Len(keys) = Cardinality(ExpectedKeySet(BuiltCfg))
            /\ BuiltCfg = [XlCfgDefault EXCEPT !.name = "agent"]
                   => RenderedText = "name = \"agent\"; type = \"hvm\""

C2_Witness ==
    /\ Rendered
    /\ BuiltCfg.name = "agent"
    /\ IsSome(BuiltCfg.memory)
    /\ BuiltCfg.pool = None
    /\ BuiltCfg.disk = <<>>

(* The keys the claim expects in a disk sub-string, in its order. *)
DiskKeys(d) ==
    <<"format", "vdev", "access">>
        \o (IF d.cdrom THEN <<"devtype">> ELSE <<>>)
        \o (IF IsSome(d.script) THEN <<"script">> ELSE <<>>)
        \o <<"target">>

(* C3: a rendered disk sub-string is a comma-separated list of key=value   *)
(* items, in the order format, vdev, access, [devtype], [script], target,  *)
(* one comma between every two adjacent items, whether or not cdrom and    *)
(* script are set.                                                         *)
C3_DiskItemsCommaSeparated ==
    IsSome(diskout) =>
        LET items == Entries(Unwrap(diskout), ",")
            d == Unwrap(diskcfg)
        IN  /\ Len(items) = Len(DiskKeys(d))
            /\ \A i \in 1..Len(items) :
                /\ Occurrences(items[i], "=") = 1
                /\ i <= Len(DiskKeys(d)) => EntryKey(items[i], "=") = DiskKeys(d)[i]

(* C4: the sub-strings of the rendered disk entry stand in the order of    *)
(* the config's disk list (the i-th ends with the i-th disk's target), and *)
(* the i-th holds devtype=cdrom exactly when the i-th disk is a cdrom.     *)
C4_DiskOrderAndCdromMarker ==
    (Rendered /\ BuiltCfg.disk # <<>>) =>
        LET subs == JsonStrArrayParse(TopLevelValue(RenderedText, "disk"))
            ds == BuiltCfg.disk
        IN  /\ Len(subs) = Len(ds)
            /\ \A i \in 1..Len(ds) :
                /\ Contains(subs[i], "devtype=cdrom") <=> ds[i].cdrom
                /\ EndsWith(subs[i], "target=" \o to_string_lossy(ds[i].target))

C4_Witness ==
    /\ Rendered
    /\ BuiltCfg.disk = <<CdDisk, ImgDisk>>

(* The key of a NIC field in the rendered text. *)
NetKeyField(k) == IF k = "type" THEN "type_" ELSE k

NetDeclarationOrder ==
    <<"mac", "bridge", "gatewaydev", "type", "model", "vifname", "script", "ip">>

NetAlphabeticalOrder ==
    <<"bridge", "gatewaydev", "ip", "mac", "model", "script", "type", "vifname">>

(* The keys of order whose field is set in the NIC n, in that order. *)
NetKeysIn(order, n) ==
    LET present(k) == IsSome(n[NetKeyField(k)]) IN SelectSeq(order, present)

(* C5, as claimed: the items of a rendered NIC sub-string stand in the     *)
(* declaration order mac, bridge, gatewaydev, type, model, vifname,        *)
(* script, ip.                                                             *)
C5_DeclarationOrder ==
    IsSome(netout) =>
        EntryKeys(Unwrap(netout), ",", "=") = NetKeysIn(NetDeclarationOrder, Unwrap(netcfg))

(* C5, amended: the items of a rendered NIC sub-string stand in ascending  *)
(* alphabetical order of their keys: bridge, gatewaydev, ip, mac, model,   *)
(* script, type, vifname.                                                  *)
C5_AlphabeticalOrder ==
    IsSome(netout) =>
        LET keys == EntryKeys(Unwrap(netout), ",", "=")
        IN  /\ keys = NetKeysIn(NetAlphabeticalOrder, Unwrap(netcfg))
            /\ Ascending(keys)

C5_Witness ==
    /\ IsSome(netout)
    /\ IsSome(Unwrap(netcfg).mac)
    /\ IsSome(Unwrap(netcfg).bridge)
    /\ IsSome(Unwrap(netcfg).ip)

(* C6: building a config whose name is empty or was never set fails with   *)
(* MissingRequiredField, so that no text with an empty name is rendered or *)
(* given to xl create.                                                     *)
C6_EmptyNameRejected ==
    /\ (IsSome(cfg) /\ (cfgb.name = None \/ cfgb.name = Some("")))
           => Unwrap(cfg) = Err("MissingRequiredField")
    /\ Rendered => ~Contains(RenderedText, "name = \"\"")
    /\ \A i \in 1..Len(calls) : ~Contains(calls[i][Len(calls[i])], "name = \"\"")

(* C7: to_string on a built config always returns text, whatever values    *)
(* its fields hold; it never panics, neither when called alone nor when    *)
(* create calls it.                                                        *)
C7_RenderTotal ==
    /\ IsSome(cfgout) => IsOk(Unwrap(cfgout))
    /\ result # Some(Panic(UnwrapErrPanic))

(* The child of the wrapper ran to its end and exited with this status. *)
Exited(zero) ==
    /\ IsSome(child)
    /\ IsOk(Unwrap(child))
    /\ (Unwrap(child).val.status = 0) = zero

(* The text of the lines of ls that are UTF-8. *)
Texts(ls) ==
    LET utf8(l) == l.utf8
        valid == SelectSeq(ls, utf8)
    IN  [i \in 1..Len(valid) |-> valid[i].text]

(* C8: when the tool exits non-zero the operation returns an error that    *)
(* carries the captured stdout and stderr lines, and the tool was invoked  *)
(* exactly once.                                                           *)
C8_ErrorCarriesOutput ==
    Exited(FALSE) =>
        LET o == Unwrap(child).val
            captured == Texts(o.stdout) \o Texts(o.stderr)
        IN  /\ IsSome(result)
            /\ IsErr(Unwrap(result))
            /\ \A i \in 1..Len(captured) : Contains(Unwrap(result).err, captured[i])
            /\ Len(calls) = 1

(* The subcommand of the wrapper that ran. *)
Subcommand == calls[1][2]

(* The rows of the table the tool printed: its lines but the header. *)
DataRows == Texts(Skip1(Unwrap(child).val.stdout))

(* The parse of a row of the table of the subcommand that ran. *)
RowParse(t) ==
    IF Subcommand = "list" THEN XlListInfoFromStr(t) ELSE XlNetworkListEntryFromStr(t)

(* The values of the rows that parse, in the order of the output. *)
WellFormedRows ==
    LET ok(t) == IsOk(RowParse(t))
        rows == SelectSeq(DataRows, ok)
    IN  [i \in 1..Len(rows) |-> RowParse(rows[i]).val]

(* A row of xl list with a field missing or a numeric field that does not  *)
(* parse.                                                                  *)
MalformedListRow(t) ==
    LET p == split_whitespace(t)
    IN  \/ Len(p) < 6
        \/ \E i \in {2, 3, 4} : IsErr(ParseU32(p[i]))
        \/ IsErr(ParseF32(p[6]))

(* A row of xl network-list with a field missing or a numeric or MAC       *)
(* field that does not parse.                                              *)
MalformedNetworkListRow(t) ==
    LET p == split_whitespace(t)
    IN  \/ Len(p) < 8
        \/ \E i \in {1, 2, 4, 5, 6} : IsErr(ParseI32(p[i]))
        \/ IsErr(ParseMacAddr6(p[3]))
        \/ Len(Split(p[7], "/")) # 2
        \/ \E i \in 1..2 : IsErr(ParseI32(Split(p[7], "/")[i]))

MalformedRow(t) ==
    IF Subcommand = "list" THEN MalformedListRow(t) ELSE MalformedNetworkListRow(t)

(* C9: when xl list or xl network-list exits zero and one row of its table *)
(* is malformed, the call returns Ok with every other row, in the order of *)
(* the output.                                                             *)
C9_MalformedRowSkipped ==
    (/\ Exited(TRUE)
     /\ Subcommand \in {"list", "network-list"}
     /\ Cardinality({i \in 1..Len(DataRows) : MalformedRow(DataRows[i])}) = 1
     /\ \A i \in 1..Len(DataRows) :
            MalformedRow(DataRows[i]) \/ IsOk(RowParse(DataRows[i])))
        => result = Some(Ok(WellFormedRows))

StateChars == {"r", "b", "p", "s", "c", "d", "-"}

(* A row of xl list whose state field holds a character that is no flag. *)
UnknownStateRow(t) ==
    LET p == split_whitespace(t)
    IN  /\ Len(p) >= 5
        /\ \E i \in 1..Len(p[5]) : Char(p[5], i) \notin StateChars

(* C10: when a row of xl list has an unknown character in its state field, *)
(* the call returns Ok with all the other rows: it neither fails nor       *)
(* aborts.                                                                 *)
C10_UnknownStateRowSkipped ==
    (/\ Exited(TRUE)
     /\ Subcommand = "list"
     /\ \E i \in 1..Len(DataRows) : UnknownStateRow(DataRows[i])
     /\ \A i \in 1..Len(DataRows) :
            UnknownStateRow(DataRows[i]) \/ IsOk(RowParse(DataRows[i])))
        => result = Some(Ok(WellFormedRows))

(* The flag a character of the state field stands for. *)
FlagOf(c) ==
    CASE c = "r" -> "Running"
      [] c = "b" -> "Blocked"
      [] c = "p" -> "Paused"
      [] c = "s" -> "Shutdown"
      [] c = "c" -> "Crashed"
      [] c = "d" -> "Dying"

(* The lines of the table after the first, those that are UTF-8. *)
RowsAfterHeader ==
    LET out == Unwrap(child).val.stdout
    IN  Texts(IF out = <<>> THEN <<>> ELSE SubSeq(out, 2, Len(out)))

(* C11: when list returns Ok, its entries are the lines after the first,   *)
(* one entry per line in order; the entry of a row has the first token as  *)
(* name, the second, third and fourth as id, mem and vcpus, and as flags   *)
(* exactly the flags of the characters of the fifth token other than `-`;  *)
(* `agent1 3 2048 2 r----- 12.5` gives agent1, 3, 2048, 2, {Running}.      *)
C11_ListRowsPositional ==
    (/\ Exited(TRUE)
     /\ Subcommand = "list"
     /\ row = None
     /\ IsSome(result)
     /\ IsOk(Unwrap(result)))
        => LET rows == RowsAfterHeader
               infos == Unwrap(result).val
           IN  /\ Len(infos) = Len(rows)
               /\ \A i \in 1..Len(rows) :
                    LET p == split_whitespace(rows[i])
                        flagChars == {Char(p[5], k) : k \in 1..Len(p[5])} \ {"-"}
                    IN  /\ infos[i].name = p[1]
                        /\ NatToStr(infos[i].id) = p[2]
                        /\ NatToStr(infos[i].mem) = p[3]
                        /\ NatToStr(infos[i].vcpus) = p[4]
                        /\ infos[i].state = {FlagOf(c) : c \in flagChars}
                        /\ rows[i] = "agent1 3 2048 2 r----- 12.5"
                            => /\ infos[i].name = "agent1"
                               /\ infos[i].id = 3
                               /\ infos[i].mem = 2048
                               /\ infos[i].vcpus = 2
                               /\ infos[i].state = {"Running"}

C11_Witness ==
    /\ Exited(TRUE)
    /\ calls = << <<"xl", "list">> >>
    /\ row = None
    /\ IsSome(result)
    /\ IsOk(Unwrap(result))
    /\ Len(Unwrap(result).val) = 3
    /\ Unwrap(result).val[2].name = "agent1"
    /\ \E i \in 1..3 : Unwrap(result).val[i].state = {"Paused", "Dying"}
    /\ \E i \in 1..3 : Unwrap(result).val[i].state = {"Blocked"}

(* The text the tool printed on its standard output, trimmed. *)
TrimmedStdout == Trim(FromUtf8(Unwrap(child).val.stdout).val)

(* C12: when xl domid exits zero and its trimmed output is no unsigned     *)
(* integer, domid returns an error to its caller: no value and no panic.   *)
C12_DomidParseError ==
    (/\ Exited(TRUE)
     /\ Subcommand = "domid"
     /\ IsOk(FromUtf8(Unwrap(child).val.stdout))
     /\ ~AllDigits(TrimmedStdout))
        => /\ IsSome(result)
           /\ IsErr(Unwrap(result))

(* A row in the form xl network-list prints: eight tokens, the seventh two *)
(* integers with a `/` between them, the other numeric fields and the MAC  *)
(* such that they parse.                                                   *)
NetworkListRowGrammar(t) == ~MalformedNetworkListRow(t)

(* The entry is the row read by position, tx and rx from the seventh token *)
(* and the backend path from the eighth.                                   *)
EntryOfRow(e, t) ==
    LET p == split_whitespace(t)
    IN  /\ IntToStr(e.idx) = p[1]
        /\ IntToStr(e.tx) = Split(p[7], "/")[1]
        /\ IntToStr(e.rx) = Split(p[7], "/")[2]
        /\ e.be_path = p[8]

(* C13: network_list skips the header and gives for each row an entry      *)
(* whose tx and rx are the two integers of the seventh token, split on     *)
(* `/`, and whose backend path is the eighth token; so does from_str for   *)
(* every row of that form.                                                 *)
C13_NetworkListRow ==
    /\ (/\ Exited(TRUE)
        /\ Subcommand = "network-list"
        /\ \A i \in 1..Len(RowsAfterHeader) : NetworkListRowGrammar(RowsAfterHeader[i]))
           => /\ IsSome(result)
              /\ IsOk(Unwrap(result))
              /\ Len(Unwrap(result).val) = Len(RowsAfterHeader)
              /\ \A i \in 1..Len(RowsAfterHeader) :
                    EntryOfRow(Unwrap(result).val[i], RowsAfterHeader[i])
    /\ (/\ IsSome(row)
        /\ Unwrap(row).module \in {"xl", "xen::xl"}
        /\ NetworkListRowGrammar(Unwrap(row).text))
           => /\ IsOk(Unwrap(result))
              /\ EntryOfRow(Unwrap(result).val, Unwrap(row).text)

(* new_domnaname(prefix) ran and xl list gave it its domains. *)
Named ==
    /\ IsSome(row)
    /\ Unwrap(row).module = "new_domnaname"
    /\ Exited(TRUE)
    /\ IsOk(ListCollect(Skip1(Unwrap(child).val.stdout)).res)

NamedPrefix == Unwrap(row).text

(* The names of the running domains, as xl list printed them. *)
RunningNames ==
    {split_whitespace(RowsAfterHeader[i])[1] : i \in 1..Len(RowsAfterHeader)}

(* The remainder of a name after its one leading prefix. *)
Remainder(n, prefix) == SubSeq(n, Len(prefix) + 1, Len(n))

(* The numbers of the names that have the prefix and an unsigned integer   *)
(* as remainder, as digits.                                                *)
QualifyingNumbers(names, prefix) ==
    {StripZeros(Remainder(n, prefix)) :
        n \in {m \in names : StartsWith(m, prefix) /\ AllDigits(Remainder(m, prefix))}}

(* The greatest of them, 0 when there is none. *)
MaxNumber(names, prefix) ==
    LET q == QualifyingNumbers(names, prefix)
    IN  IF q = {} THEN "0"
        ELSE CHOOSE d \in q : \A e \in q : ~DigitsAbove(e, d)

(* C14: new_domnaname(prefix) returns prefix followed by max + 1, max the  *)
(* greatest number among the running names that are prefix followed by an  *)
(* unsigned integer, and 0 when there is none; agent1, agent3, other7 give *)
(* agent4 for agent, and no match gives agent1.                            *)
C14_NextName ==
    Named =>
        /\ result = Some(Ok(NamedPrefix \o DecInc(MaxNumber(RunningNames, NamedPrefix))))
        /\ (RunningNames = {"agent1", "agent3", "other7"} /\ NamedPrefix = "agent")
               => result = Some(Ok("agent4"))
        /\ (RunningNames = {} /\ NamedPrefix = "agent") => result = Some(Ok("agent1"))

(* C15: in every interleaving of two clients, and of another actor that   *)
(* creates domains, the name passed to create is not the name of a domain *)
(* that runs when create is issued.                                       *)
C15_CreatedNameNotRunning ==
    \A i \in 1..Len(created) : created[i].name \notin created[i].running

(* The two (MAC, IPv4) pairs of a stream item that is a decoded frame. *)
PairsOf(item) ==
    IF IsOk(item) /\ IsSome(item.val)
        THEN {Unwrap(item.val)[1], Unwrap(item.val)[2]}
        ELSE {}

(* The IPv4 addresses that the items pair with a MAC of the domain. *)
Candidates(items) ==
    {pr[2] : pr \in {q \in UNION {PairsOf(i) : i \in items} : q[1] \in domMacs}}

(* The items the search tasks have read, and all the items captured. *)
ReadItems == {observed[i].item : i \in 1..Len(observed)}

CapturedItems ==
    ReadItems \cup UNION {{streams[d][i] : i \in 1..Len(streams[d])} : d \in Devices}

IpValue(ip) == ((ip[1] * 256 + ip[2]) * 256 + ip[3]) * 256 + ip[4]

Returned == ipPc = "done"

LastBackoff == IF slept = <<>> THEN 1 ELSE slept[Len(slept)]

(* C16: when no observation pairs a MAC of the domain with an address,    *)
(* dom_ip returns the timeout error, not before the timeout T and before  *)
(* T plus the last backoff interval.                                      *)
C16_BoundedWait ==
    (Returned /\ Candidates(CapturedItems) = {}) =>
        /\ domIp = Some(Elapsed)
        /\ elapsed >= timeoutSecs
        /\ elapsed < timeoutSecs + LastBackoff

(* C17: the only error dom_ip ever gives its caller is the timeout error: *)
(* a domain or NIC not listed, a capture that does not open, a stream     *)
(* that ends are not fatal.                                               *)
C17_OnlyTimeoutError ==
    Returned => IsOk(Unwrap(domIp)) \/ domIp = Some(Elapsed)

(* C18: when a search task has read a frame that pairs any MAC of the     *)
(* domain with an IPv4 address, dom_ip returns an address.                *)
C18_AnyDomainMac ==
    (Returned /\ Candidates(ReadItems) # {}) => IsOk(Unwrap(domIp))

(* C19: the address returned is the lowest of the addresses the captured  *)
(* frames pair with the MACs of the domain, whatever the device, the MAC  *)
(* and the order of arrival.                                              *)
C19_LowestAddress ==
    (Returned /\ IsOk(Unwrap(domIp))) =>
        \A ip \in Candidates(CapturedItems) :
            IpValue(Unwrap(domIp).val) <= IpValue(ip)

(* C20: the sleeps are of 1, 2, 4, ... seconds, one after each failed     *)
(* attempt, and the resolver retries until it has an address or the       *)
(* timeout has passed.                                                    *)
C20_Backoff ==
    /\ \A i \in 1..Len(slept) : slept[i] = 2 ^ (i - 1)
    /\ (Returned /\ elapsed < timeoutSecs) => IsOk(Unwrap(domIp))
    /\ (Returned /\ ~IsOk(Unwrap(domIp)) /\ timeoutSecs >= 1) => slept # <<>>

(* C21: two consecutive calls from the same start with no bind between    *)
(* them return the same port; the port returned is the first from start   *)
(* upward that no process listens on, and none up to 65535 is an error.   *)
C21_FreePortIdempotent ==
    /\ \A i \in 1..Len(portCalls) - 1 :
        (/\ portCalls[i].start = portCalls[i + 1].start
         /\ portCalls[i].binds = portCalls[i + 1].binds)
            => portCalls[i].res = portCalls[i + 1].res
    /\ (portCalls # <<>> /\ portCalls[Len(portCalls)].binds = binds) =>
        LET c == portCalls[Len(portCalls)]
        IN  IF c.start..PortSpaceTop \subseteq bound
                THEN IsErr(c.res)
                ELSE /\ IsOk(c.res)
                     /\ c.res.val >= c.start
                     /\ c.res.val \notin bound
                     /\ c.start..(c.res.val - 1) \subseteq bound

(* Two calls in a row from 5900 have both returned 5901. *)
C21_Witness ==
    /\ Len(portCalls) >= 2
    /\ portCalls[1].start = VncPortStart
    /\ portCalls[2].start = VncPortStart
    /\ portCalls[1].binds = portCalls[2].binds
    /\ portCalls[1].res = Ok(5901)
    /\ portCalls[2].res = Ok(5901)

(* The token of a text: the text up to its first colon. *)
TokenOf(text) == Split(text, ":")[1]

(* Lowercase letters, digits and the hyphen. *)
TokenChars == "abcdefghijklmnopqrstuvwxyz0123456789-"

IsToken(t) ==
    /\ t # ""
    /\ \A i \in 1..Len(t) : Contains(TokenChars, Char(t, i))

(* C22: every variant of an enum renders to one fixed lowercase or        *)
(* hyphenated token (for a serial device: its kind, before the            *)
(* parameters), and two variants of one enum never render to the same.    *)
C22_OneTokenPerVariant ==
    \A i, j \in 1..Len(shown) :
        /\ IsToken(TokenOf(shown[i].text))
        /\ shown[i].enum \in UnitEnums => shown[i].text = TokenOf(shown[i].text)
        /\ shown[i].enum = shown[j].enum =>
            (shown[i].variant = shown[j].variant
                <=> TokenOf(shown[i].text) = TokenOf(shown[j].text))

(* The two variants of XlDiskAccess, and two vc devices that differ in    *)
(* their parameters, have been rendered.                                  *)
C22_Witness ==
    /\ Len(shown) = 2
    /\ \/ /\ shown[1].enum = "XlDiskAccess"
          /\ shown[2].enum = "XlDiskAccess"
          /\ shown[1].variant # shown[2].variant
       \/ /\ shown[1].enum = "XlSerialDev"
          /\ shown[2].enum = "XlSerialDev"
          /\ shown[1].variant = "Vc"
          /\ shown[2].variant = "Vc"
          /\ shown[1].text # shown[2].text

Transports == {"Udp", "Tcp", "Telnet", "Websocket", "Unix"}

TransportPrefix(kind) ==
    CASE kind = "Udp" -> "udp:"
      [] kind = "Tcp" -> "tcp:"
      [] kind = "Telnet" -> "telnet:"
      [] kind = "Websocket" -> "websocket:"
      [] kind = "Unix" -> "unix:"

(* tcp:<host>:<port> and the flags that are set, in the order server,     *)
(* wait, nodelay, reconnect.                                              *)
TcpText(c) ==
    "tcp:"
    \o (IF IsSome(c.remote_host) THEN XlRemoteHostDisplay(Unwrap(c.remote_host)) ELSE "")
    \o ":" \o NatToStr(c.remote_port)
    \o (IF c.server THEN ",server=on" ELSE "")
    \o (IF c.wait THEN ",wait=on" ELSE "")
    \o (IF c.nodelay THEN ",nodelay=on" ELSE "")
    \o (IF IsSome(c.reconnect) THEN ",reconnect=" \o NatToStr(Unwrap(c.reconnect)) ELSE "")

(* C26: a serial device over Udp, Tcp, Telnet, Websocket or Unix renders  *)
(* with its transport prefix once, followed by its parameters; a Tcp      *)
(* device renders as tcp:<host>:<port> and its flags.                     *)
C26_OneTransportPrefix ==
    \A i \in 1..Len(shown) :
        (shown[i].enum = "XlSerialDev" /\ shown[i].variant \in Transports) =>
            LET prefix == TransportPrefix(shown[i].variant)
            IN  /\ StartsWith(shown[i].text, prefix)
                /\ ~StartsWith(shown[i].text, prefix \o prefix)
                /\ shown[i].variant = "Tcp" => shown[i].text = TcpText(shown[i].value.conn)

(* C23: the name new_domnaname returns is the name of no running domain,  *)
(* whatever the prefix (also one made of digits) and the names, also      *)
(* with the suffix 4294967295 among them.                                 *)
C23_FreshName ==
    (Named /\ IsSome(result) /\ IsOk(Unwrap(result)))
        => Unwrap(result).val \notin RunningNames

(* The subcommand of xl that belongs to a function of xl.rs. *)
SubcommandOf(fn) ==
    CASE fn = "dump_core" -> "dump-core"
      [] fn = "network_list" -> "network-list"
      [] OTHER -> fn

IsFlag(a) == a # "" /\ Head(a) = "-"

(* The arguments given to xl by the last call. *)
LastArgs == Tail(calls[Len(calls)])

(* A wrapper was called and has spawned xl. *)
Spawned == IsSome(called) /\ calls # <<>> /\ IsSome(child)

(* C24: every wrapper gives xl its own subcommand as the first argument,  *)
(* then its flags, then its positional arguments.                         *)
C24_SubcommandFirst ==
    Spawned =>
        /\ LastArgs # <<>>
        /\ LastArgs[1] = SubcommandOf(Unwrap(called))
        /\ \A i, j \in 2..Len(LastArgs) :
            (i < j /\ IsFlag(LastArgs[j])) => IsFlag(LastArgs[i])

(* C25: no argument given to xl is the empty string; reboot gives         *)
(* reboot, <domid> without force and reboot, -F, <domid> with it.         *)
C25_NoEmptyArgument ==
    Spawned =>
        /\ \A i \in 1..Len(LastArgs) : LastArgs[i] # ""
        /\ called = Some("reboot") =>
            \E d \in Domids :
                LastArgs \in {<<"reboot", NatToStr(d)>>, <<"reboot", "-F", NatToStr(d)>>}

(* The address a stream item pairs with the MAC m: that of the source    *)
(* when m is the source MAC of the frame, else that of the destination    *)
(* when m is its destination MAC; none for any other item.                *)
PairedIp(item, m) ==
    IF ~(IsOk(item) /\ IsSome(item.val)) THEN None
    ELSE IF Unwrap(item.val)[1][1] = m THEN Some(Unwrap(item.val)[1][2])
    ELSE IF Unwrap(item.val)[2][1] = m THEN Some(Unwrap(item.val)[2][2])
    ELSE None

ItemRead == Len(observed') = Len(observed) + 1

LastRead == observed'[Len(observed')].item

(* C27: an address is returned only when a task has read an IPv4 frame    *)
(* whose source or destination MAC is the MAC searched, and it is the     *)
(* address paired with that MAC in the frame; a frame of other MACs, a    *)
(* packet that is no IPv4 frame and a capture error give no result and    *)
(* leave the search and its tasks as they are.                            *)
C27_OnlyMatchingFrame ==
    [][/\ (domIp' # domIp /\ IsSome(domIp') /\ IsOk(Unwrap(domIp'))) =>
            /\ ItemRead
            /\ PairedIp(LastRead, Unwrap(searchMac)) = Some(Unwrap(domIp').val)
       /\ (ItemRead /\ PairedIp(LastRead, Unwrap(searchMac)) = None) =>
            /\ domIp' = None
            /\ ipPc' = "capturing"
            /\ tasks' = tasks
      ]_vars

(* An address was returned for a frame to the MAC searched, read after    *)
(* an item that is no frame.                                              *)
C27_Witness ==
    /\ ipPc = "done"
    /\ domIp = Some(Ok(<<10, 0, 0, 2>>))
    /\ searchMac = Some(MacA)
    /\ Len(observed) = 2
    /\ PairedIp(observed[1].item, MacA) = None
    /\ observed[1].item \in {Ok(None), Err("capture error")}

InnerError == Some(Err("Did not obtain any IP"))

(* C28: a task that fails is dropped and the others stay awaited; the     *)
(* first address a task returns is returned; the error of dom_ip_inner    *)
(* comes only when no task is left; on timeout the tasks are abandoned    *)
(* and nothing else changes.                                              *)
C28_RaceOfTasks ==
    [][/\ (tasks' # tasks /\ ipPc = "capturing") =>
            /\ tasks' \subseteq tasks
            /\ IF tasks' = {}
                 THEN domIp' = InnerError /\ ipPc' = "done"
                 ELSE domIp' = None /\ ipPc' = "capturing"
       /\ (domIp' = InnerError) => tasks' = {}
       /\ (ItemRead /\ PairedIp(LastRead, Unwrap(searchMac)) # None) =>
            /\ domIp' = Some(Ok(Unwrap(PairedIp(LastRead, Unwrap(searchMac)))))
            /\ ipPc' = "done"
       /\ (domIp' = Some(Elapsed)) =>
            /\ ipPc' = "done"
            /\ UNCHANGED <<tasks, streams, observed, domMacs, searchMac, elapsed,
                           timeoutSecs, slept, notIp>>
      ]_vars

(* The task of eth0 has read an item and was dropped when its stream      *)
(* ended; the task of vif3.0 then returned an address.                    *)
C28_Witness ==
    /\ ipPc = "done"
    /\ IsOk(Unwrap(domIp))
    /\ tasks = {"vif3.0"}
    /\ Len(observed) = 2
    /\ observed[1].dev = "eth0"
    /\ observed[2].dev = "vif3.0"

(* The positions of the call's trace at which op was done. *)
Done(op) == {i \in 1..Len(sshTrace) : sshTrace[i].op = op}

FailedAt(i) == ~IsOk(sshTrace[i].res)

(* C29: ssh_domname resolves the address first and opens no SSH           *)
(* connection when that fails; the password session that sends the keys   *)
(* is opened only right after a failed key-authenticated attempt; sent    *)
(* keys are followed by exactly one more key-authenticated attempt; a     *)
(* call makes at most two such attempts and at most one key-sending       *)
(* session; an error of the key sending or of the second attempt is the   *)
(* result of the call.                                                    *)
C29_ResolveThenKeyThenPassword ==
    /\ sshTrace # <<>> => sshTrace[1].op = "dom_ip"
    /\ (sshTrace # <<>> /\ FailedAt(1)) =>
            /\ Len(sshTrace) = 1
            /\ sshPc = "done"
            /\ sshResult = Some(sshTrace[1].res)
    /\ \A i \in Done("connect") :
            /\ i > 1
            /\ sshTrace[i - 1].op = "ssh_session"
            /\ FailedAt(i - 1)
    /\ (pendingKeys # <<>> \/ sshPc \in {"mkdir", "sending"}) =>
            Done("connect") # {}
    /\ Cardinality(Done("ssh_session")) <= 2
    /\ Cardinality(Done("connect")) <= 1
    /\ Cardinality(Done("ssh_sendkeys")) <= 1
    /\ \A i \in Done("ssh_sendkeys") :
            IF FailedAt(i)
              THEN /\ i = Len(sshTrace)
                   /\ sshPc = "done"
                   /\ sshResult = Some(sshTrace[i].res)
              ELSE \/ i = Len(sshTrace) /\ sshPc = "session2"
                   \/ /\ i + 1 = Len(sshTrace)
                      /\ sshTrace[i + 1].op = "ssh_session"
                      /\ sshPc = "done"
    /\ \A i \in Done("ssh_session") :
            (FailedAt(i) /\ \E j \in Done("ssh_session") : j < i) =>
                /\ i = Len(sshTrace)
                /\ sshPc = "done"
                /\ sshResult = Some(sshTrace[i].res)

(* The first attempt failed, two keys were sent, the second attempt gave  *)
(* the session.                                                           *)
C29_Witness ==
    /\ sshPc = "done"
    /\ sshResult = Some(Ok("session"))
    /\ Cardinality(Done("ssh_session")) = 2
    /\ Cardinality(Done("connect")) = 1
    /\ Len(localKeys) = 2
    /\ Len(authorized) >= 2

(* The rows of the table: the lines of stdout that are not blank. *)
TableRows ==
    SelectSeq(Unwrap(neighOut).val.stdout, LAMBDA l : Trim(l.text) # "")

(* The link-layer address a row carries: the token after lladdr. *)
RowLladdr(l) ==
    LET ts == split_whitespace(l.text)
        at == {i \in 1..(Len(ts) - 1) : ts[i] = "lladdr"}
    IN  IF at = {} THEN None
        ELSE Some(ParseMacAddr6(ts[(CHOOSE i \in at : TRUE) + 1]).val)

(* C30: when ip neighbor show succeeds, ip_neighbors gives one entry per  *)
(* non-blank line of its output, in order; the entry of a row has no      *)
(* lladdr when the row carries no link-layer address, and the MAC of the  *)
(* row when it carries one.                                               *)
C30_OneNeighborPerRow ==
    (IsSome(neighOut) /\ IsOk(Unwrap(neighOut)) /\ Unwrap(neighOut).val.status = 0) =>
        /\ IsOk(Unwrap(neighbors))
        /\ Len(Unwrap(neighbors).val) = Len(TableRows)
        /\ \A i \in 1..Len(TableRows) :
              Unwrap(neighbors).val[i].lladdr = RowLladdr(TableRows[i])

====
